---------------------------- MODULE Spec2Model ----------------------------
(***************************************************************************)
(* Pre-Earnings-Edge: the earnings-move subsystem (src/src/earnings_moves  *)
(* .py) with the read side of the underlying price store it depends on     *)
(* (src/src/underlying_store.py).                                          *)
(*                                                                         *)
(* Representation of Python values                                         *)
(*   None                 the empty tuple <<>>                             *)
(*   a float              an exact reduced fraction <<n, d>>, d > 0.  The  *)
(*                        code computes in IEEE doubles; the model keeps   *)
(*                        the exact rational value of every expression, so *)
(*                        two floats are compared as their exact values.   *)
(*   a date string        the tuple <<y, m, d>> of the three fields of a   *)
(*                        zero-padded "YYYY-MM-DD" text.  A tuple whose    *)
(*                        fields name no calendar day (month 13, Feb 30)   *)
(*                        is a string strptime cannot parse.               *)
(*   Optional[str] tag    a string, with "None" for None                   *)
(*   a date object        the 1-tuple <<ordinal>> of its Gregorian ordinal *)
(*   raise                the 4-tuple Raised(kind)                         *)
(***************************************************************************)
EXTENDS Integers, Sequences, FiniteSets, TLC

VARIABLES
    pc,             \* position of the program being modelled
    rows,           \* underlying_daily rows of the symbol: sequence of [trade_date, close]
    events,         \* earnings_dates_with_timing, the input list of (date, timing)
    dates_sorted,   \* local of compute_earnings_moves_from_db
    close_by_date,  \* local of compute_earnings_moves_from_db
    i,              \* number of events the loop of line 108 has taken
    out,            \* the list of EarningsEventMove built so far
    call,           \* arguments of the pure function under call
    ret,            \* value returned (or raised) by the last call
    frame           \* locals of the procedure that runs step by step

vars == <<pc, rows, events, dates_sorted, close_by_date, i, out, call, ret, frame>>

----------------------------------------------------------------------------
(* Python values *)

None == <<>>

NoneStr == "None"

Raised(kind) == <<"raise", kind, "", "">>

IsRaised(v) == Len(v) = 4

Abs(x) == IF x < 0 THEN -x ELSE x

RECURSIVE Gcd(_, _)
Gcd(a, b) == IF b = 0 THEN a ELSE Gcd(b, a % b)

\* The float with exact value n/d (d # 0), as a reduced fraction.
Frac(n, d) ==
    LET s == IF d < 0 THEN -1 ELSE 1
        g == Gcd(Abs(n), Abs(d))
    IN  <<(s * n) \div g, (s * d) \div g>>

FloatOfInt(k) == <<k, 1>>

FAdd(a, b) == Frac(a[1] * b[2] + b[1] * a[2], a[2] * b[2])

FSub(a, b) == Frac(a[1] * b[2] - b[1] * a[2], a[2] * b[2])

FMul(a, b) == Frac(a[1] * b[1], a[2] * b[2])

FDiv(a, b) == Frac(a[1] * b[2], a[2] * b[1])

FAbs(a) == <<Abs(a[1]), a[2]>>

FLe(a, b) == a[1] * b[2] <= b[1] * a[2]

FLt(a, b) == a[1] * b[2] < b[1] * a[2]

FPositive(a) == a[1] > 0

\* bool(x) of a float: zero is falsy
FTruthy(a) == a[1] # 0

----------------------------------------------------------------------------
(* Calendar dates: datetime.strptime(d, "%Y-%m-%d").date() *)

IsLeap(y) == (y % 4 = 0 /\ y % 100 # 0) \/ y % 400 = 0

DaysInMonth(y, m) ==
    IF m = 2 THEN (IF IsLeap(y) THEN 29 ELSE 28)
    ELSE IF m \in {4, 6, 9, 11} THEN 30 ELSE 31

\* strptime accepts the text exactly when its fields name a calendar day
Parsable(s) ==
    /\ Len(s) = 3
    /\ s[1] >= 1
    /\ s[2] \in 1..12
    /\ s[3] >= 1
    /\ s[3] <= DaysInMonth(s[1], s[2])

\* the proleptic Gregorian ordinal of y-m-d (date.toordinal)
RECURSIVE DaysBeforeMonth(_, _)
DaysBeforeMonth(y, m) ==
    IF m = 1 THEN 0 ELSE DaysBeforeMonth(y, m - 1) + DaysInMonth(y, m - 1)

ToOrdinal(y, m, d) ==
    LET p == y - 1
    IN  p * 365 + (p \div 4) - (p \div 100) + (p \div 400) + DaysBeforeMonth(y, m) + d

\* a date object is modelled by its ordinal; comparing dates compares ordinals
_parse_date(d) ==
    IF Parsable(d) THEN <<ToOrdinal(d[1], d[2], d[3])>> ELSE Raised("ValueError")

----------------------------------------------------------------------------
(* _nearest_trading_dates *)

\* the loop `for i in range(len - 1, -1, -1)`: <<i>> for the first i, from the
\* end, with _parse_date(dates_sorted[i]) <= t, and <<0>> when the loop ends
\* without a break (indices are 1-based here, so 0 stands for idx = None); a
\* stored date that does not parse raises when the scan reaches it.
RECURSIVE ScanBack(_, _, _)
ScanBack(ds, t, at) ==
    IF at = 0 THEN <<0>>
    ELSE LET p == _parse_date(ds[at])
         IN  IF IsRaised(p) THEN p
             ELSE IF p[1] <= t[1] THEN <<at>>
             ELSE ScanBack(ds, t, at - 1)

RECURSIVE ScanBackStrict(_, _, _)
ScanBackStrict(ds, t, at) ==
    IF at = 0 THEN <<0>>
    ELSE LET p == _parse_date(ds[at])
         IN  IF IsRaised(p) THEN p
             ELSE IF p[1] < t[1] THEN <<at>>
             ELSE ScanBackStrict(ds, t, at - 1)

\* lines 90-93 with D-1 read at idx instead of idx - 1
NeighboursSameDay(ds, idx) ==
    <<ds[idx],
      ds[idx],
      IF idx + 1 <= Len(ds) THEN ds[idx + 1] ELSE None>>

\* lines 90-93: the triple around index idx
Neighbours(ds, idx) ==
    <<IF idx - 1 >= 1 THEN ds[idx - 1] ELSE None,
      ds[idx],
      IF idx + 1 <= Len(ds) THEN ds[idx + 1] ELSE None>>

_nearest_trading_dates_strict(ds, target) ==
    IF ds = <<>> THEN <<None, None, None>>
    ELSE LET t == _parse_date(target)
         IN  IF IsRaised(t) THEN t
             ELSE LET idx == ScanBackStrict(ds, t, Len(ds))
                  IN  IF IsRaised(idx) THEN idx
                      ELSE IF idx[1] = 0 THEN <<None, None, None>>
                      ELSE Neighbours(ds, idx[1])

_nearest_trading_dates(ds, target) ==
    IF ds = <<>> THEN <<None, None, None>>
    ELSE LET t == _parse_date(target)
         IN  IF IsRaised(t) THEN t
             ELSE LET idx == ScanBack(ds, t, Len(ds))
                  IN  IF IsRaised(idx) THEN idx
                      ELSE IF idx[1] = 0 THEN <<None, None, None>>
                      ELSE Neighbours(ds, idx[1])

----------------------------------------------------------------------------
(* underlying_store: the rows of underlying_daily and load_all_dates_closes *)

\* A stored trade_date text is [fmt, ymd]:
\*   "hyphen"  YYYY-MM-DD          "packed"  YYYYMMDD
\*   "deco"    YYYYMMDD 2          "junk"    a text neither pattern matches
RawDate(fmt, ymd) == [fmt |-> fmt, ymd |-> ymd]

\* _RE_YYYY_MM_DD is tried first, then _RE_YYYYMMDD, else None
_normalize_trade_date(s) ==
    IF s.fmt = "hyphen" THEN s.ymd
    ELSE IF s.fmt \in {"packed", "deco"} THEN s.ymd
    ELSE None

\* comparison of zero-padded YYYY-MM-DD texts: field by field
DateStrLess(a, b) ==
    \/ a[1] < b[1]
    \/ a[1] = b[1] /\ a[2] < b[2]
    \/ a[1] = b[1] /\ a[2] = b[2] /\ a[3] < b[3]

\* SQLite's ORDER BY trade_date ASC: bytewise comparison of the raw texts.
\* The junk text starts with a letter and sorts after every digit; with equal
\* years "YYYY-..." sorts before "YYYYM..." ('-' < '0'); "YYYYMMDD" is a
\* proper prefix of "YYYYMMDD 2".
FmtRank(f) == IF f = "hyphen" THEN 0 ELSE 1

RawLess(a, b) ==
    IF a.fmt = "junk" \/ b.fmt = "junk" THEN a.fmt # "junk" /\ b.fmt = "junk"
    ELSE \/ a.ymd[1] < b.ymd[1]
         \/ /\ a.ymd[1] = b.ymd[1]
            /\ \/ FmtRank(a.fmt) < FmtRank(b.fmt)
               \/ /\ FmtRank(a.fmt) = FmtRank(b.fmt)
                  /\ \/ DateStrLess(a.ymd, b.ymd)
                     \/ a.ymd = b.ymd /\ a.fmt = "packed" /\ b.fmt = "deco"

\* the result list of the SELECT: the table's rows in ascending trade_date
RECURSIVE OrderByTradeDate(_)
OrderByTradeDate(table) ==
    IF table = {} THEN <<>>
    ELSE LET first == CHOOSE r \in table :
                        \A q \in table \ {r} : RawLess(r.trade_date, q.trade_date)
         IN  <<first>> \o OrderByTradeDate(table \ {first})

\* lines 134-140: the dict built by the loop, last write wins
RECURSIVE BuildCloseByDate(_, _)
BuildCloseByDate(fetched, acc) ==
    IF fetched = <<>> THEN acc
    ELSE LET nd == _normalize_trade_date(Head(fetched).trade_date)
             c  == Head(fetched).close
         IN  IF nd = None THEN BuildCloseByDate(Tail(fetched), acc)
             ELSE BuildCloseByDate(Tail(fetched),
                     [k \in (DOMAIN acc) \cup {nd} |-> IF k = nd THEN c ELSE acc[k]])

\* sorted(close_by_date.keys())
RECURSIVE SortedDates(_)
SortedDates(S) ==
    IF S = {} THEN <<>>
    ELSE LET least == CHOOSE d \in S : \A e \in S \ {d} : DateStrLess(d, e)
         IN  <<least>> \o SortedDates(S \ {least})

EmptyDict == [k \in {} |-> None]

\* the normalised dates of the fetched rows, one entry per row
RECURSIVE DatesOfRows(_)
DatesOfRows(fetched) ==
    IF fetched = <<>> THEN <<>>
    ELSE LET nd == _normalize_trade_date(Head(fetched).trade_date)
         IN  IF nd = None THEN DatesOfRows(Tail(fetched))
             ELSE <<nd>> \o DatesOfRows(Tail(fetched))

\* load_all_dates_closes with the date list read off the rows, not off the dict
load_all_dates_closes_per_row(table) ==
    LET fetched == OrderByTradeDate(table)
    IN  <<DatesOfRows(fetched), BuildCloseByDate(fetched, EmptyDict)>>

load_all_dates_closes(table) ==
    LET cbd == BuildCloseByDate(OrderByTradeDate(table), EmptyDict)
    IN  <<SortedDates(DOMAIN cbd), cbd>>

----------------------------------------------------------------------------
(* compute_earnings_moves_from_db: the body of the loop over the events *)

\* dict.get(key) guarded by `if key else None`
CloseOf(cbd, d) == IF d # None /\ d \in DOMAIN cbd THEN cbd[d] ELSE None

\* `a and b and a > 0 and b > 0` of two Optional[float]
BothPositive(a, b) ==
    /\ a # None /\ FTruthy(a)
    /\ b # None /\ FTruthy(b)
    /\ FPositive(a)
    /\ FPositive(b)

BothTruthy(a, b) ==
    /\ a # None /\ FTruthy(a)
    /\ b # None /\ FTruthy(b)

One == FloatOfInt(1)

\* abs((later / earlier) - 1.0) when both closes qualify, else None
MoveBetweenUnchecked(earlier, later) ==
    IF BothTruthy(earlier, later) THEN FAbs(FSub(FDiv(later, earlier), One)) ELSE None

MoveBetween(earlier, later) ==
    IF BothPositive(earlier, later) THEN FAbs(FSub(FDiv(later, earlier), One)) ELSE None

\* note_parts joined by "|"
NoteOf(move_bmo, move_amc) ==
    IF move_bmo = None /\ move_amc = None THEN "missing_bmo_inputs" \o "|" \o "missing_amc_inputs"
    ELSE IF move_bmo = None THEN "missing_bmo_inputs"
    ELSE IF move_amc = None THEN "missing_amc_inputs"
    ELSE ""

\* str.upper() on the timing texts of the model
upper(s) ==
    CASE s = "bmo" -> "BMO"
      [] s = "amc" -> "AMC"
      [] s = "unknown" -> "UNKNOWN"
      [] OTHER -> s

\* (timing or "UNKNOWN").upper()
TimingTag(timing) == upper(IF timing = "" THEN "UNKNOWN" ELSE timing)

\* lines 131-150 with the timing rule ignored: always the larger candidate
SelectUsedLargest(t, move_bmo, move_amc) ==
    IF move_bmo # None /\ move_amc # None
      THEN IF FLe(move_amc, move_bmo) THEN <<move_bmo, "BMO_like">>
           ELSE <<move_amc, "AMC_like">>
    ELSE IF move_bmo # None THEN <<move_bmo, "BMO_like">>
    ELSE IF move_amc # None THEN <<move_amc, "AMC_like">>
    ELSE <<None, NoneStr>>

\* lines 131-150 with the tie of the unknown branch given to the AMC window
SelectUsedStrict(t, move_bmo, move_amc) ==
    IF t = "BMO" THEN <<move_bmo, "BMO_like">>
    ELSE IF t = "AMC" THEN <<move_amc, "AMC_like">>
    ELSE IF move_bmo # None /\ move_amc # None
      THEN IF FLt(move_amc, move_bmo) THEN <<move_bmo, "BMO_like">>
           ELSE <<move_amc, "AMC_like">>
    ELSE IF move_bmo # None THEN <<move_bmo, "BMO_like">>
    ELSE IF move_amc # None THEN <<move_amc, "AMC_like">>
    ELSE <<None, NoneStr>>

\* lines 131-150 with the tag of the unknown branch taken from the wrong side
SelectUsedMistagged(t, move_bmo, move_amc) ==
    IF t = "BMO" THEN <<move_bmo, "BMO_like">>
    ELSE IF t = "AMC" THEN <<move_amc, "AMC_like">>
    ELSE IF move_bmo # None /\ move_amc # None
      THEN IF FLe(move_amc, move_bmo) THEN <<move_bmo, "BMO_like">>
           ELSE <<move_amc, "BMO_like">>
    ELSE IF move_bmo # None THEN <<move_bmo, "BMO_like">>
    ELSE IF move_amc # None THEN <<move_amc, "AMC_like">>
    ELSE <<None, NoneStr>>

\* lines 131-150: <<used, used_window>>
SelectUsed(t, move_bmo, move_amc) ==
    IF t = "BMO" THEN <<move_bmo, "BMO_like">>
    ELSE IF t = "AMC" THEN <<move_amc, "AMC_like">>
    ELSE IF move_bmo # None /\ move_amc # None
      THEN IF FLe(move_amc, move_bmo) THEN <<move_bmo, "BMO_like">>
           ELSE <<move_amc, "AMC_like">>
    ELSE IF move_bmo # None THEN <<move_bmo, "BMO_like">>
    ELSE IF move_amc # None THEN <<move_amc, "AMC_like">>
    ELSE <<None, NoneStr>>

\* lines 111-168: the record of one event, given its resolved triple
EarningsEventMove(cbd, edate, timing, triple) ==
    LET dm1 == triple[1]
        d0  == triple[2]
        dp1 == triple[3]
        c_dm1 == CloseOf(cbd, dm1)
        c_d0  == CloseOf(cbd, d0)
        c_dp1 == CloseOf(cbd, dp1)
        move_bmo == MoveBetween(c_dm1, c_d0)
        move_amc == MoveBetween(c_d0, c_dp1)
        t == TimingTag(timing)
        sel == SelectUsed(t, move_bmo, move_amc)
    IN  [ earnings_date |-> edate,
          timing |-> t,
          d_m1 |-> dm1,
          d0 |-> d0,
          d_p1 |-> dp1,
          close_dm1 |-> c_dm1,
          close_d0 |-> c_d0,
          close_dp1 |-> c_dp1,
          move_bmo_like_pct |-> move_bmo,
          move_amc_like_pct |-> move_amc,
          move_used_pct |-> sel[1],
          used_window |-> sel[2],
          note |-> NoteOf(move_bmo, move_amc) ]

\* out.append(...) dropped for an event that resolves to no trading date
AppendMoveSkipUnresolved(acc, rec) == IF rec.d0 = None THEN acc ELSE Append(acc, rec)

\* line 152: out.append(EarningsEventMove(...))
AppendMove(acc, rec) == Append(acc, rec)

----------------------------------------------------------------------------
(* summarize_earnings_moves *)

DefaultMinValidEvents == 8

\* floor and ceil of a non-negative float, as integers
Floor(a) == a[1] \div a[2]

Ceil(a) == IF a[1] % a[2] = 0 THEN a[1] \div a[2] ELSE (a[1] \div a[2]) + 1

\* list indices are 0-based in the code and 1-based here
_percentile(sorted_vals, p) ==
    IF sorted_vals = <<>> THEN None
    ELSE IF FLe(p, FloatOfInt(0)) THEN sorted_vals[1]
    ELSE IF FLe(One, p) THEN sorted_vals[Len(sorted_vals)]
    ELSE LET n   == Len(sorted_vals)
             idx == FMul(FloatOfInt(n - 1), p)
             lo  == Floor(idx)
             hi  == Ceil(idx)
             w   == FSub(idx, FloatOfInt(lo))
         IN  IF lo = hi THEN sorted_vals[lo + 1]
             ELSE FAdd(FMul(sorted_vals[lo + 1], FSub(One, w)),
                       FMul(sorted_vals[hi + 1], w))

_median(sorted_vals) == _percentile(sorted_vals, Frac(1, 2))

\* [m.move_used_pct for m in moves if m.move_used_pct is not None]
RECURSIVE UsedVals(_)
UsedVals(moves) ==
    IF moves = <<>> THEN <<>>
    ELSE IF Head(moves).move_used_pct = None THEN UsedVals(Tail(moves))
    ELSE <<Head(moves).move_used_pct>> \o UsedVals(Tail(moves))

\* insertion of x into an ascending list, after the entries equal to it
RECURSIVE InsertAsc(_, _)
InsertAsc(sorted, x) ==
    IF sorted = <<>> THEN <<x>>
    ELSE IF FLt(x, Head(sorted)) THEN <<x>> \o sorted
    ELSE <<Head(sorted)>> \o InsertAsc(Tail(sorted), x)

RECURSIVE SortAscFrom(_, _)
SortAscFrom(vals, acc) ==
    IF vals = <<>> THEN acc ELSE SortAscFrom(Tail(vals), InsertAsc(acc, Head(vals)))

\* used_vals.sort() left out
SortAscOmitted(vals) == vals

\* used_vals.sort(): a stable ascending sort
SortAsc(vals) == SortAscFrom(vals, <<>>)

RECURSIVE FSum(_)
FSum(vals) == IF vals = <<>> THEN FloatOfInt(0) ELSE FAdd(Head(vals), FSum(Tail(vals)))

\* line 194 with < for <=
RECURSIVE CountLt(_, _)
CountLt(vals, x) ==
    IF vals = <<>> THEN 0
    ELSE (IF FLt(Head(vals), x) THEN 1 ELSE 0) + CountLt(Tail(vals), x)

RECURSIVE CountLe(_, _)
CountLe(vals, x) ==
    IF vals = <<>> THEN 0
    ELSE (IF FLe(Head(vals), x) THEN 1 ELSE 0) + CountLe(Tail(vals), x)

\* line 197 with > for >=
HistOkStrict(n_used, min_valid_events) == n_used > min_valid_events

\* line 197
HistOk(n_used, min_valid_events) == n_used >= min_valid_events

summarize_earnings_moves(moves, current_implied_move_pct, min_valid_events) ==
    LET used_vals == SortAsc(UsedVals(moves))
        n_total   == Len(moves)
        n_used    == Len(used_vals)
    IN  [ n_events_total |-> n_total,
          n_events_used |-> n_used,
          mean_move |-> IF n_used # 0 THEN FDiv(FSum(used_vals), FloatOfInt(n_used)) ELSE None,
          median_move |-> _median(used_vals),
          p75_move |-> _percentile(used_vals, Frac(3, 4)),
          max_move |-> IF used_vals # <<>> THEN used_vals[n_used] ELSE None,
          implied_percentile_rank |->
              IF current_implied_move_pct # None /\ used_vals # <<>>
              THEN FMul(FloatOfInt(100),
                        Frac(CountLe(used_vals, current_implied_move_pct), Len(used_vals)))
              ELSE None,
          earnings_hist_ok |-> HistOk(n_used, min_valid_events) ]

----------------------------------------------------------------------------
(* Inputs *)

MaxBars == 3

MaxEvents == 2

MaxTradingDates == 4

MaxMoves == 4

RECURSIVE SeqsUpTo(_, _)
SeqsUpTo(S, n) ==
    IF n = 0 THEN {<<>>}
    ELSE LET shorter == SeqsUpTo(S, n - 1)
         IN  shorter \cup {Append(q, x) : q \in {r \in shorter : Len(r) = n - 1}, x \in S}

TradingDays == {<<2023, 12, 29>>, <<2024, 1, 3>>, <<2024, 1, 4>>, <<2024, 1, 5>>}

Closes == {FloatOfInt(-100), FloatOfInt(0), FloatOfInt(99), FloatOfInt(100), FloatOfInt(110)}

\* the trading days, a Saturday after them, and a text strptime rejects (month 13)
EventDates == TradingDays \cup {<<2024, 1, 6>>} \cup {<<2024, 13, 1>>}

Timings == {"BMO", "AMC", "UNKNOWN", "amc", ""}

Row(fmt, ymd, close) == [trade_date |-> RawDate(fmt, ymd), close |-> close]

\* every table of at most MaxBars rows, one close per trading day
HyphenTables ==
    UNION { { {Row("hyphen", d, f[d]) : d \in D} : f \in [D -> Closes] }
            : D \in {E \in SUBSET TradingDays : Cardinality(E) <= MaxBars} }

\* rows of a store that also holds a legacy row and a row with an unusable date
MixedRows ==
    { Row("hyphen", <<2024, 1, 3>>, FloatOfInt(100)),
      Row("hyphen", <<2024, 1, 4>>, FloatOfInt(0)),
      Row("deco", <<2024, 1, 4>>, FloatOfInt(110)),
      Row("junk", None, FloatOfInt(100)) }

ListEvents ==
    {<<d, t>> : d \in {<<2024, 1, 3>>, <<2024, 1, 5>>, <<2024, 2, 30>>}, t \in {"BMO", ""}}

\* one event against every small table, or a list of events against a mixed store
InputsOneEvent ==
    /\ rows \in HyphenTables
    /\ events \in SeqsUpTo(EventDates \X Timings, 1)

InputsEventLists ==
    /\ rows \in SUBSET MixedRows
    /\ events \in SeqsUpTo(ListEvents, MaxEvents)

----------------------------------------------------------------------------
(* compute_earnings_moves_from_db as a state machine *)

Init ==
    /\ pc = "load"
    /\ InputsOneEvent \/ InputsEventLists
    /\ dates_sorted = <<>>
    /\ close_by_date = EmptyDict
    /\ i = 0
    /\ out = <<>>
    /\ call = None
    /\ ret = None
    /\ frame = None

\* line 105
LoadAllDatesCloses ==
    /\ pc = "load"
    /\ LET loaded == load_all_dates_closes(rows)
       IN  /\ dates_sorted' = loaded[1]
           /\ close_by_date' = loaded[2]
    /\ pc' = "loop"
    /\ UNCHANGED <<rows, events, i, out, call, ret, frame>>

\* one iteration of the loop of line 108 that appends a record
ProcessEvent ==
    /\ pc = "loop"
    /\ i < Len(events)
    /\ LET ev == events[i + 1]
           triple == _nearest_trading_dates(dates_sorted, ev[1])
       IN  /\ ~IsRaised(triple)
           /\ out' = AppendMove(out, EarningsEventMove(close_by_date, ev[1], ev[2], triple))
    /\ i' = i + 1
    /\ UNCHANGED <<pc, rows, events, dates_sorted, close_by_date, call, ret, frame>>

\* an iteration in which _nearest_trading_dates raises: the exception leaves the function
RaiseOnEvent ==
    /\ pc = "loop"
    /\ i < Len(events)
    /\ LET ev == events[i + 1]
           triple == _nearest_trading_dates(dates_sorted, ev[1])
       IN  /\ IsRaised(triple)
           /\ ret' = triple
    /\ pc' = "raised"
    /\ UNCHANGED <<rows, events, dates_sorted, close_by_date, i, out, call, frame>>

\* line 170: return out
ReturnMoves ==
    /\ pc = "loop"
    /\ i = Len(events)
    /\ pc' = "returned"
    /\ ret' = None
    /\ UNCHANGED <<rows, events, dates_sorted, close_by_date, i, out, call, frame>>

Next == LoadAllDatesCloses \/ ProcessEvent \/ RaiseOnEvent \/ ReturnMoves

Spec == Init /\ [][Next]_vars

----------------------------------------------------------------------------
(* _nearest_trading_dates called on its own *)

AlignDays ==
    {<<2023, 12, 29>>, <<2024, 1, 2>>, <<2024, 1, 3>>, <<2024, 1, 4>>, <<2024, 1, 5>>}

AlignTargets == AlignDays \cup {<<2023, 12, 28>>, <<2024, 1, 6>>, <<2024, 2, 30>>}

InitAlign ==
    /\ pc = "call_nearest"
    /\ \E D \in SUBSET AlignDays, target \in AlignTargets :
          /\ Cardinality(D) <= MaxTradingDates
          /\ call = [dates_sorted |-> SortedDates(D), target |-> target]
    /\ rows = {}
    /\ events = <<>>
    /\ dates_sorted = <<>>
    /\ close_by_date = EmptyDict
    /\ i = 0
    /\ out = <<>>
    /\ ret = None
    /\ frame = None

CallNearest ==
    /\ pc = "call_nearest"
    /\ ret' = _nearest_trading_dates(call.dates_sorted, call.target)
    /\ pc' = "nearest_done"
    /\ UNCHANGED <<rows, events, dates_sorted, close_by_date, i, out, call, frame>>

NextAlign == CallNearest

SpecAlign == InitAlign /\ [][NextAlign]_vars

----------------------------------------------------------------------------
(* summarize_earnings_moves called on its own *)

UsedValues == {None, Frac(1, 20), Frac(1, 10), Frac(3, 20), Frac(1, 5)}

ImpliedValues == {None, Frac(3, 25), Frac(1, 10)}

Thresholds == {0, 2, 4, DefaultMinValidEvents}

\* a record of an UNKNOWN-timing event whose used move is u
MoveWithUsed(u) ==
    [ earnings_date |-> <<2024, 1, 4>>,
      timing |-> "UNKNOWN",
      d_m1 |-> IF u = None THEN None ELSE <<2024, 1, 3>>,
      d0 |-> IF u = None THEN None ELSE <<2024, 1, 4>>,
      d_p1 |-> None,
      close_dm1 |-> IF u = None THEN None ELSE FloatOfInt(100),
      close_d0 |-> IF u = None THEN None ELSE FMul(FloatOfInt(100), FAdd(One, u)),
      close_dp1 |-> None,
      move_bmo_like_pct |-> u,
      move_amc_like_pct |-> None,
      move_used_pct |-> u,
      used_window |-> IF u = None THEN NoneStr ELSE "BMO_like",
      note |-> NoteOf(u, None) ]

InitSummary ==
    /\ pc = "call_summarize"
    /\ \E us \in SeqsUpTo(UsedValues, MaxMoves), imp \in ImpliedValues, thr \in Thresholds :
          call = [ moves |-> [k \in 1..Len(us) |-> MoveWithUsed(us[k])],
                   current_implied_move_pct |-> imp,
                   min_valid_events |-> thr ]
    /\ rows = {}
    /\ events = <<>>
    /\ dates_sorted = <<>>
    /\ close_by_date = EmptyDict
    /\ i = 0
    /\ out = <<>>
    /\ ret = None
    /\ frame = None

CallSummarize ==
    /\ pc = "call_summarize"
    /\ ret' = summarize_earnings_moves(call.moves, call.current_implied_move_pct,
                                       call.min_valid_events)
    /\ pc' = "summarize_done"
    /\ UNCHANGED <<rows, events, dates_sorted, close_by_date, i, out, call, frame>>

NextSummary == CallSummarize

SpecSummary == InitSummary /\ [][NextSummary]_vars

----------------------------------------------------------------------------
(* The pure functions of analytics.py and their callers' inputs *)

\* the variables a call of a pure function does not use
Idle ==
    /\ rows = {}
    /\ events = <<>>
    /\ dates_sorted = <<>>
    /\ close_by_date = EmptyDict
    /\ i = 0
    /\ out = <<>>
    /\ frame = None

\* a call changes pc and ret only
Frozen == UNCHANGED <<rows, events, dates_sorted, close_by_date, i, out, call, frame>>

\* analytics.percentile with the two interpolation weights exchanged
percentile_swapped(sorted_vals, p) ==
    IF sorted_vals = <<>> THEN None
    ELSE IF FLe(p, FloatOfInt(0)) THEN sorted_vals[1]
    ELSE IF FLe(One, p) THEN sorted_vals[Len(sorted_vals)]
    ELSE LET n   == Len(sorted_vals)
             idx == FMul(FloatOfInt(n - 1), p)
             lo  == Floor(idx)
             hi  == Ceil(idx)
             w   == FSub(idx, FloatOfInt(lo))
         IN  IF lo = hi THEN sorted_vals[lo + 1]
             ELSE FAdd(FMul(sorted_vals[lo + 1], w),
                       FMul(sorted_vals[hi + 1], FSub(One, w)))

\* analytics.percentile, the copy of earnings_moves._percentile
percentile(sorted_vals, p) ==
    IF sorted_vals = <<>> THEN None
    ELSE IF FLe(p, FloatOfInt(0)) THEN sorted_vals[1]
    ELSE IF FLe(One, p) THEN sorted_vals[Len(sorted_vals)]
    ELSE LET n   == Len(sorted_vals)
             idx == FMul(FloatOfInt(n - 1), p)
             lo  == Floor(idx)
             hi  == Ceil(idx)
             w   == FSub(idx, FloatOfInt(lo))
         IN  IF lo = hi THEN sorted_vals[lo + 1]
             ELSE FAdd(FMul(sorted_vals[lo + 1], FSub(One, w)),
                       FMul(sorted_vals[hi + 1], w))

MaxSorted == 4

PercentileValues == {FloatOfInt(1), FloatOfInt(2), FloatOfInt(3), FloatOfInt(4), FloatOfInt(10)}

PercentilePoints ==
    { Frac(-1, 2), FloatOfInt(0), Frac(1, 4), Frac(1, 3), Frac(1, 2),
      Frac(3, 4), Frac(9, 10), FloatOfInt(1), Frac(3, 2) }

Ascending(q) == \A k \in 1..(Len(q) - 1) : FLe(q[k], q[k + 1])

InitPercentile ==
    /\ pc = "call_percentile"
    /\ \E q \in SeqsUpTo(PercentileValues, MaxSorted), p \in PercentilePoints :
          /\ Ascending(q)
          /\ call = [sorted_vals |-> q, p |-> p]
    /\ ret = None
    /\ Idle

\* both copies are called on the same arguments
CallPercentile ==
    /\ pc = "call_percentile"
    /\ ret' = [ analytics |-> percentile(call.sorted_vals, call.p),
                earnings_moves |-> _percentile(call.sorted_vals, call.p) ]
    /\ pc' = "percentile_done"
    /\ Frozen

NextPercentile == CallPercentile

SpecPercentile == InitPercentile /\ [][NextPercentile]_vars

\* seq[k] of Python: k counts from 0, a negative k counts from the end
PyIndex(seq, k) ==
    IF k >= 0
    THEN IF k < Len(seq) THEN seq[k + 1] ELSE Raised("IndexError")
    ELSE IF -k <= Len(seq) THEN seq[Len(seq) + k + 1] ELSE Raised("IndexError")

\* the loop `for i in range(-window, 0)`, pass k having i = -window + k - 1:
\* the first pass that cannot append decides (an index out of range raises, a
\* non-positive close returns None), else the ratios c1/c0 whose logarithms
\* are kept come back
LogReturns(closes, window) ==
    LET c0(k) == PyIndex(closes, -window + k - 2)
        c1(k) == PyIndex(closes, -window + k - 1)
        raises(k) == IsRaised(c0(k)) \/ IsRaised(c1(k))
        stops(k) == raises(k) \/ ~FPositive(c0(k)) \/ ~FPositive(c1(k))
        passes == 1..window
    IN  IF \E k \in passes : stops(k)
        THEN LET first == CHOOSE k \in passes : stops(k) /\ \A j \in 1..(k - 1) : ~stops(j)
             IN  IF raises(first) THEN Raised("IndexError") ELSE None
        ELSE <<"rets", [k \in passes |-> FDiv(c1(k), c0(k))]>>

\* sqrt(var) * sqrt(252) over the logarithms of the ratios, kept as a term
AnnualizedStdev(ratios) == <<"sqrt252_x_stdev_ln", ratios>>

\* realized_vol_annualized with the length test one close short
realized_vol_annualized_short(closes, window) ==
    IF Len(closes) < window THEN None
    ELSE LET r == LogReturns(closes, window)
         IN  IF r = None \/ IsRaised(r) THEN r
             ELSE IF Len(r[2]) < 2 THEN None
             ELSE AnnualizedStdev(r[2])

realized_vol_annualized(closes, window) ==
    IF Len(closes) < window + 1 THEN None
    ELSE LET r == LogReturns(closes, window)
         IN  IF r = None \/ IsRaised(r) THEN r
             ELSE IF Len(r[2]) < 2 THEN None
             ELSE AnnualizedStdev(r[2])

MaxCloses == 4

VolCloses == {FloatOfInt(-5), FloatOfInt(0), FloatOfInt(100), FloatOfInt(110)}

Windows == (-1)..MaxCloses

InitVol ==
    /\ pc = "call_realized_vol"
    /\ \E c \in SeqsUpTo(VolCloses, MaxCloses), w \in Windows :
          call = [closes |-> c, window |-> w]
    /\ ret = None
    /\ Idle

CallRealizedVol ==
    /\ pc = "call_realized_vol"
    /\ ret' = realized_vol_annualized(call.closes, call.window)
    /\ pc' = "realized_vol_done"
    /\ Frozen

NextVol == CallRealizedVol

SpecVol == InitVol /\ [][NextVol]_vars

\* term_slope_ratio that lets a zero back volatility through to the division
term_slope_ratio_zero_back(iv_front, iv_back) ==
    IF iv_front = None \/ iv_back = None THEN <<None, None>>
    ELSE IF FLt(iv_back, FloatOfInt(0)) THEN <<None, None>>
    ELSE IF iv_back[1] = 0 THEN Raised("ZeroDivisionError")
    ELSE <<FSub(iv_front, iv_back), FDiv(iv_front, iv_back)>>

term_slope_ratio(iv_front, iv_back) ==
    IF iv_front = None \/ iv_back = None THEN <<None, None>>
    ELSE IF FLe(iv_back, FloatOfInt(0)) THEN <<None, None>>
    ELSE <<FSub(iv_front, iv_back), FDiv(iv_front, iv_back)>>

ImpliedVols ==
    { None, Frac(-1, 10), FloatOfInt(0), Frac(1, 5), Frac(1, 4), Frac(3, 10),
      Frac(1, 2), FloatOfInt(1), FloatOfInt(2) }

InitSlope ==
    /\ pc = "call_term_slope_ratio"
    /\ \E f \in ImpliedVols, b \in ImpliedVols : call = [iv_front |-> f, iv_back |-> b]
    /\ ret = None
    /\ Idle

CallTermSlopeRatio ==
    /\ pc = "call_term_slope_ratio"
    /\ ret' = term_slope_ratio(call.iv_front, call.iv_back)
    /\ pc' = "term_slope_ratio_done"
    /\ Frozen

NextSlope == CallTermSlopeRatio

SpecSlope == InitSlope /\ [][NextSlope]_vars

----------------------------------------------------------------------------
(* fmp_earnings.py: the vendor's timing strings *)

\* a Python str is the sequence of its characters; an Optional[str] is a record
\* [present, text], None being [present |-> FALSE, text |-> <<>>]
AbsentStr == [present |-> FALSE, text |-> <<>>]

Str(chars) == [present |-> TRUE, text |-> chars]

LowerCase == <<"a", "b", "c", "d", "e", "f", "g", "h", "i", "j", "k", "l", "m",
               "n", "o", "p", "q", "r", "s", "t", "u", "v", "w", "x", "y", "z">>

UpperCase == <<"A", "B", "C", "D", "E", "F", "G", "H", "I", "J", "K", "L", "M",
               "N", "O", "P", "Q", "R", "S", "T", "U", "V", "W", "X", "Y", "Z">>

\* str.upper, one character
UpperChar(c) ==
    IF \E k \in 1..Len(LowerCase) : LowerCase[k] = c
    THEN UpperCase[CHOOSE k \in 1..Len(LowerCase) : LowerCase[k] = c]
    ELSE c

str_upper(s) == [k \in 1..Len(s) |-> UpperChar(s[k])]

IsSpace(c) == c = " "

\* str.strip
RECURSIVE lstrip(_)
lstrip(s) == IF s # <<>> /\ IsSpace(Head(s)) THEN lstrip(Tail(s)) ELSE s

RECURSIVE rstrip(_)
rstrip(s) ==
    IF s # <<>> /\ IsSpace(s[Len(s)]) THEN rstrip(SubSeq(s, 1, Len(s) - 1)) ELSE s

str_strip(s) == rstrip(lstrip(s))

\* sub in s
In(sub, s) ==
    \E at \in 0..(Len(s) - Len(sub)) : SubSeq(s, at + 1, at + Len(sub)) = sub

\* _normalize_timing with the two tests in the other order
_normalize_timing_bmo_first(x) ==
    IF ~x.present \/ x.text = <<>> THEN "UNKNOWN"
    ELSE LET s == str_upper(str_strip(x.text))
         IN  IF In(<<"B", "M", "O">>, s) \/ In(<<"B", "E", "F", "O", "R", "E">>, s) THEN "BMO"
             ELSE IF In(<<"A", "M", "C">>, s) \/ In(<<"A", "F", "T", "E", "R">>, s) THEN "AMC"
             ELSE "UNKNOWN"

_normalize_timing(x) ==
    IF ~x.present \/ x.text = <<>> THEN "UNKNOWN"
    ELSE LET s == str_upper(str_strip(x.text))
         IN  IF In(<<"A", "M", "C">>, s) \/ In(<<"A", "F", "T", "E", "R">>, s) THEN "AMC"
             ELSE IF In(<<"B", "M", "O">>, s) \/ In(<<"B", "E", "F", "O", "R", "E">>, s) THEN "BMO"
             ELSE "UNKNOWN"

MaxTokens == 2

TimingTokens ==
    { <<"b", "m", "o">>, <<"A", "M", "C">>, <<"B", "e", "f", "o", "r", "e">>,
      <<"a", "f", "t", "e", "r">>, <<" ">>, <<"p", "r", "e">>, <<"a", "m">>, <<"c">> }

RECURSIVE Concat(_)
Concat(tokens) == IF tokens = <<>> THEN <<>> ELSE Head(tokens) \o Concat(Tail(tokens))

VendorTimings ==
    {AbsentStr} \cup {Str(Concat(tokens)) : tokens \in SeqsUpTo(TimingTokens, MaxTokens)}

InitTiming ==
    /\ pc = "call_normalize_timing"
    /\ \E x \in VendorTimings : call = [x |-> x]
    /\ ret = None
    /\ Idle

CallNormalizeTiming ==
    /\ pc = "call_normalize_timing"
    /\ ret' = <<_normalize_timing(call.x)>>
    /\ pc' = "normalize_timing_done"
    /\ Frozen

NextTiming == CallNormalizeTiming

SpecTiming == InitTiming /\ [][NextTiming]_vars

----------------------------------------------------------------------------
(* fmp_earnings.py: fetch_earnings_bundle, one step per request to the vendor *)

_to_date(s) == _parse_date(s)

\* a row of the vendor's calendar: a dict with "date", "time", "earningsTime";
\* a missing key reads as None
CalendarRow(d, time, earningsTime) == [date |-> d, time |-> time, earningsTime |-> earningsTime]

StrTruthy(x) == x.present /\ x.text # <<>>

\* row.get("time") or row.get("earningsTime")
TimeOf(row) == IF StrTruthy(row.time) THEN row.time ELSE row.earningsTime

\* _to_date raises on the first row whose date is there and does not parse
RaisesValueError(fetched) ==
    \E k \in 1..Len(fetched) :
        fetched[k].date # None /\ IsRaised(_to_date(fetched[k].date))

\* lines 65-73: (d, timing, row) for the rows dated today or later
RECURSIVE FutureOf(_, _)
FutureOf(fetched, today) ==
    IF fetched = <<>> THEN <<>>
    ELSE LET row == Head(fetched)
             rest == FutureOf(Tail(fetched), today)
         IN  IF row.date = None THEN rest
             ELSE IF _to_date(row.date)[1] >= _to_date(today)[1]
                  THEN <<<<row.date, _normalize_timing(TimeOf(row)), row>>>> \o rest
                  ELSE rest

\* lines 98-106: (d, t) for the rows dated before today
RECURSIVE PastOf(_, _)
PastOf(fetched, today) ==
    IF fetched = <<>> THEN <<>>
    ELSE LET row == Head(fetched)
             rest == PastOf(Tail(fetched), today)
         IN  IF row.date = None THEN rest
             ELSE IF _to_date(row.date)[1] < _to_date(today)[1]
                  THEN <<<<row.date, _normalize_timing(TimeOf(row))>>>> \o rest
                  ELSE rest

\* list.sort(key=lambda x: x[0]): ascending by the date text and stable, so an
\* entry goes after the entries of smaller key and the earlier ones of equal key
SortByDate(list) ==
    LET n == Len(list)
        Ahead(j, k) ==
            \/ DateStrLess(list[j][1], list[k][1])
            \/ ~DateStrLess(list[k][1], list[j][1]) /\ j < k
        Place(k) == 1 + Cardinality({j \in 1..n : j # k /\ Ahead(j, k)})
    IN  [p \in 1..n |-> list[CHOOSE k \in 1..n : Place(k) = p]]

\* lines 109-112: <<collected, seen_dates>> after the loop over past
RECURSIVE Collect(_, _, _)
Collect(past, collected, seen_dates) ==
    IF past = <<>> THEN <<collected, seen_dates>>
    ELSE LET e == Head(past)
         IN  IF e[1] \in seen_dates THEN Collect(Tail(past), collected, seen_dates)
             ELSE Collect(Tail(past), Append(collected, e), seen_dates \cup {e[1]})

\* list[-n:] for 0 <= n: -0 is 0, so list[-0:] is the whole list
LastSlice(list, n) ==
    IF n = 0 \/ n >= Len(list) THEN list ELSE SubSeq(list, Len(list) - n + 1, Len(list))

\* lines 115-117
KeepLast(collected, n_last) ==
    LET sorted == SortByDate(collected)
    IN  IF Len(sorted) > n_last THEN LastSlice(sorted, n_last) ELSE sorted

\* lines 86-90: the windows reach back this many days, and all end yesterday
ChunkDays == <<548, 365 * 3, 365 * 5>>

NoRowsError == "FMP returned no earnings rows in tested windows"

EarningsInfo(next_date, next_time_hint, last_earnings, error) ==
    [ next_earnings_date |-> next_date,
      next_time_hint |-> next_time_hint,
      last_earnings |-> last_earnings,
      source |-> "fmp:stable/earnings-calendar",
      error |-> error ]

\* lines 134-142 with the exception's text dropped
EarningsInfoOnException_silent(e) == EarningsInfo(None, AbsentStr, <<>>, NoneStr)

\* lines 134-142, the error being the text of the exception
EarningsInfoOnException(e) == EarningsInfo(None, AbsentStr, <<>>, e)

MaxRows == 2
MaxNLast == 2

Today == <<2024, 6, 15>>

Bmo == Str(<<"b", "m", "o">>)
Amc == Str(<<"a", "m", "c">>)

CalendarRows ==
    { CalendarRow(<<2024, 3, 1>>, Bmo, AbsentStr),
      CalendarRow(<<2024, 3, 1>>, AbsentStr, Amc),
      CalendarRow(<<2023, 12, 1>>, Amc, AbsentStr),
      CalendarRow(<<2022, 1, 10>>, AbsentStr, AbsentStr),
      CalendarRow(Today, Str(<<" ", "a", "m", "c">>), AbsentStr),
      CalendarRow(<<2024, 9, 1>>, Bmo, AbsentStr),
      CalendarRow(<<2024, 13, 1>>, Bmo, AbsentStr),
      CalendarRow(None, Amc, AbsentStr) }

Responses == SeqsUpTo(CalendarRows, MaxRows)

InitBundle ==
    /\ pc = "fetch_future"
    /\ \E n \in 0..MaxNLast : call = [n_last |-> n]
    /\ ret = None
    /\ frame = [ today |-> Today,
                 window |-> <<>>,
                 chunk |-> 0,
                 next_date |-> None,
                 next_time_hint |-> AbsentStr,
                 collected |-> <<>>,
                 seen_dates |-> {},
                 history_rows |-> {},
                 future_rows |-> {},
                 failed |-> FALSE ]
    /\ rows = {}
    /\ events = <<>>
    /\ dates_sorted = <<>>
    /\ close_by_date = EmptyDict
    /\ i = 0
    /\ out = <<>>

\* what a run leaves alone; out is the list of the windows requested so far,
\* frame.future_rows and frame.history_rows the rows the vendor has returned
BundleFrozen == UNCHANGED <<rows, events, dates_sorted, close_by_date, i, call>>

RowsOf(fetched) == {fetched[k] : k \in 1..Len(fetched)}

\* lines 61-62
FutureWindow(today) == <<_to_date(today)[1] - 7, _to_date(today)[1] + 365>>

\* lines 86-90, 94-95
ChunkWindow(today, chunk) == <<_to_date(today)[1] - ChunkDays[chunk], _to_date(today)[1] - 1>>

\* lines 60-81: the request for the future window and what is read off it
FetchFuture ==
    /\ pc = "fetch_future"
    /\ out' = Append(out, FutureWindow(frame.today))
    /\ \E fut_rows \in Responses :
          LET w == FutureWindow(frame.today)
          IN  IF RaisesValueError(fut_rows)
              THEN /\ ret' = EarningsInfoOnException("ValueError")
                   /\ pc' = "returned_on_exception"
                   /\ frame' = [frame EXCEPT !.window = w, !.future_rows = RowsOf(fut_rows)]
              ELSE LET future == SortByDate(FutureOf(fut_rows, frame.today))
                       th == IF future = <<>> THEN AbsentStr ELSE TimeOf(future[1][3])
                   IN  /\ frame' = [frame EXCEPT
                                      !.window = w,
                                      !.chunk = 1,
                                      !.future_rows = RowsOf(fut_rows),
                                      !.next_date = IF future = <<>> THEN None ELSE future[1][1],
                                      !.next_time_hint =
                                          IF StrTruthy(th) THEN Str(str_strip(th.text))
                                          ELSE AbsentStr]
                       /\ pc' = "fetch_chunk"
                       /\ ret' = ret
    /\ BundleFrozen

\* lines 93-120: one pass of the loop over the chunks
FetchChunk ==
    /\ pc = "fetch_chunk"
    /\ out' = Append(out, ChunkWindow(frame.today, frame.chunk))
    /\ \E fetched \in Responses :
          LET w == ChunkWindow(frame.today, frame.chunk)
          IN  IF RaisesValueError(fetched)
              THEN /\ ret' = EarningsInfoOnException("ValueError")
                   /\ pc' = "returned_on_exception"
                   /\ frame' = [frame EXCEPT !.window = w,
                                             !.history_rows = @ \cup RowsOf(fetched)]
              ELSE LET past == SortByDate(PastOf(fetched, frame.today))
                       cs == Collect(past, frame.collected, frame.seen_dates)
                       kept == KeepLast(cs[1], call.n_last)
                       leave == Len(kept) >= call.n_last \/ frame.chunk = Len(ChunkDays)
                   IN  /\ frame' = [frame EXCEPT
                                      !.window = w,
                                      !.chunk = IF leave THEN @ ELSE @ + 1,
                                      !.collected = kept,
                                      !.seen_dates = cs[2],
                                      !.history_rows = @ \cup RowsOf(fetched)]
                       /\ pc' = IF leave THEN "build_info" ELSE "fetch_chunk"
                       /\ ret' = ret
    /\ BundleFrozen

\* _get raises on an HTTP status >= 400 or a failed request
FetchFails ==
    /\ pc \in {"fetch_future", "fetch_chunk"}
    /\ LET w == IF pc = "fetch_future" THEN FutureWindow(frame.today)
                ELSE ChunkWindow(frame.today, frame.chunk)
       IN  /\ out' = Append(out, w)
           /\ frame' = [frame EXCEPT !.window = w, !.failed = TRUE]
    /\ ret' = EarningsInfoOnException("RuntimeError")
    /\ pc' = "returned_on_exception"
    /\ BundleFrozen

\* lines 122-132
ReturnBundle ==
    /\ pc = "build_info"
    /\ LET collected == SortByDate(frame.collected)
       IN  ret' = EarningsInfo(frame.next_date, frame.next_time_hint, collected,
                               IF frame.next_date # None \/ collected # <<>>
                               THEN NoneStr ELSE NoRowsError)
    /\ pc' = "returned"
    /\ UNCHANGED <<frame, out>>
    /\ BundleFrozen

NextBundle == FetchFuture \/ FetchChunk \/ FetchFails \/ ReturnBundle

SpecBundle == InitBundle /\ [][NextBundle]_vars

----------------------------------------------------------------------------
(* underlying_store.py: the two readers of underlying_daily on one table *)

\* a row of underlying_daily for the symbol, volume included
Bar(fmt, ymd, close, volume) ==
    [trade_date |-> RawDate(fmt, ymd), close |-> close, volume |-> volume]

Reverse(s) == [k \in 1..Len(s) |-> s[Len(s) + 1 - k]]

\* ORDER BY trade_date DESC LIMIT ?
RecentRows(table, limit) ==
    LET desc == Reverse(OrderByTradeDate(table))
    IN  IF limit >= Len(desc) THEN desc ELSE SubSeq(desc, 1, limit)

\* lines 102-107: (nd, close, volume) for the rows whose date normalises
NormalisedTriples(raw) ==
    LET nd(k) == _normalize_trade_date(raw[k].trade_date)
        kept == {k \in 1..Len(raw) : nd(k) # None}
        nth(p) == CHOOSE k \in kept : Cardinality({j \in kept : j < k}) = p - 1
    IN  [p \in 1..Cardinality(kept) |-> <<nd(nth(p)), raw[nth(p)].close, raw[nth(p)].volume>>]

\* the stable sort by x[0] is the one of SortByDate
load_recent(table, limit) == SortByDate(NormalisedTriples(RecentRows(table, limit)))

MaxStoreRows == 3

\* the limit main passes
RecentLimit == 150

StoreBars ==
    { Bar("hyphen", <<2023, 12, 29>>, FloatOfInt(99), 9),
      Bar("hyphen", <<2024, 1, 3>>, FloatOfInt(100), 10),
      Bar("packed", <<2024, 1, 3>>, FloatOfInt(101), 11),
      Bar("hyphen", <<2024, 1, 4>>, FloatOfInt(110), 20),
      Bar("packed", <<2024, 1, 4>>, FloatOfInt(111), 21),
      Bar("deco", <<2024, 1, 4>>, FloatOfInt(112), 22),
      Bar("junk", None, FloatOfInt(5), 1) }

StoreTables == {T \in SUBSET StoreBars : Cardinality(T) <= MaxStoreRows}

InitStore ==
    /\ pc = "call_store"
    /\ rows \in StoreTables
    /\ \E limit \in (1..MaxStoreRows) \cup {RecentLimit} : call = [limit |-> limit]
    /\ ret = None
    /\ events = <<>>
    /\ dates_sorted = <<>>
    /\ close_by_date = EmptyDict
    /\ i = 0
    /\ out = <<>>
    /\ frame = None

CallLoadAllDatesCloses ==
    /\ pc = "call_store"
    /\ LET r == load_all_dates_closes(rows)
       IN  /\ dates_sorted' = r[1]
           /\ close_by_date' = r[2]
    /\ pc' = "load_all_dates_closes_done"
    /\ UNCHANGED <<rows, events, i, out, call, ret, frame>>

CallLoadRecent ==
    /\ pc = "call_store"
    /\ ret' = load_recent(rows, call.limit)
    /\ pc' = "load_recent_done"
    /\ UNCHANGED <<rows, events, dates_sorted, close_by_date, i, out, call, frame>>

NextStore == CallLoadAllDatesCloses \/ CallLoadRecent

SpecStore == InitStore /\ [][NextStore]_vars

----------------------------------------------------------------------------
(* skew_reader.py: pick_front_back *)

\* a SkewRow, with the fields the choice reads or hands on; the expiry text
\* YYYYMMDD is kept as <<y, m, d>>
SkewRow(expiry, atm_strike, atm_iv) ==
    [expiry |-> expiry, atm_strike |-> atm_strike, atm_iv |-> atm_iv]

\* strptime(expiry, "%Y%m%d").date()
_expiry_to_date(expiry_yyyymmdd) ==
    IF Parsable(expiry_yyyymmdd)
    THEN <<ToOrdinal(expiry_yyyymmdd[1], expiry_yyyymmdd[2], expiry_yyyymmdd[3])>>
    ELSE Raised("ValueError")

\* line 61
RECURSIVE Eligible(_, _)
Eligible(skew_rows, e_date) ==
    IF skew_rows = <<>> THEN <<>>
    ELSE IF _expiry_to_date(Head(skew_rows).expiry)[1] >= e_date[1]
         THEN <<Head(skew_rows)>> \o Eligible(Tail(skew_rows), e_date)
         ELSE Eligible(Tail(skew_rows), e_date)

\* line 68: stable sort by expiry date
RECURSIVE InsertByExpiry(_, _)
InsertByExpiry(sorted, r) ==
    IF sorted = <<>> THEN <<r>>
    ELSE IF _expiry_to_date(r.expiry)[1] < _expiry_to_date(Head(sorted).expiry)[1]
         THEN <<r>> \o sorted
         ELSE <<Head(sorted)>> \o InsertByExpiry(Tail(sorted), r)

RECURSIVE SortByExpiryFrom(_, _)
SortByExpiryFrom(list, acc) ==
    IF list = <<>> THEN acc ELSE SortByExpiryFrom(Tail(list), InsertByExpiry(acc, Head(list)))

SortByExpiry(list) == SortByExpiryFrom(list, <<>>)

\* the key of line 74
DistanceTo(r, target) == Abs(_expiry_to_date(r.expiry)[1] - target)

\* min(candidates, key=...): the first of the candidates with the least key
RECURSIVE MinByDistance(_, _, _)
MinByDistance(candidates, target, best) ==
    IF candidates = <<>> THEN best
    ELSE IF DistanceTo(Head(candidates), target) < DistanceTo(best, target)
         THEN MinByDistance(Tail(candidates), target, Head(candidates))
         ELSE MinByDistance(Tail(candidates), target, best)

\* pick_front_back with the back row looked for among all the eligible rows
pick_front_back_any(skew_rows, earnings_date_yyyy_mm_dd) ==
    LET e_date == _parse_date(earnings_date_yyyy_mm_dd)
    IN  IF IsRaised(e_date) THEN e_date
        ELSE IF \E k \in 1..Len(skew_rows) : IsRaised(_expiry_to_date(skew_rows[k].expiry))
             THEN Raised("ValueError")
        ELSE LET eligible == SortByExpiry(Eligible(skew_rows, e_date))
             IN  IF Len(eligible) < 2 THEN Raised("RuntimeError")
                 ELSE LET front == eligible[1]
                          target == _expiry_to_date(front.expiry)[1] + 30
                      IN  <<front, MinByDistance(Tail(eligible), target, eligible[1])>>

pick_front_back(skew_rows, earnings_date_yyyy_mm_dd) ==
    LET e_date == _parse_date(earnings_date_yyyy_mm_dd)
    IN  IF IsRaised(e_date) THEN e_date
        ELSE IF \E k \in 1..Len(skew_rows) : IsRaised(_expiry_to_date(skew_rows[k].expiry))
             THEN Raised("ValueError")
        ELSE LET eligible == SortByExpiry(Eligible(skew_rows, e_date))
             IN  IF Len(eligible) < 2 THEN Raised("RuntimeError")
                 ELSE LET front == eligible[1]
                          target == _expiry_to_date(front.expiry)[1] + 30
                      IN  <<front, MinByDistance(Tail(Tail(eligible)), target, eligible[2])>>

MaxSkewRows == 3

Expiries == {<<2024, 7, 5>>, <<2024, 7, 19>>, <<2024, 8, 16>>, <<2024, 8, 20>>, <<2024, 9, 20>>}

SkewRows == {SkewRow(x, FloatOfInt(100), iv) : x \in Expiries, iv \in {Frac(1, 4), Frac(3, 10)}}

EarningsDates == {<<2024, 7, 10>>, <<2024, 7, 19>>, <<2024, 9, 30>>}

InitPick ==
    /\ pc = "call_pick_front_back"
    /\ \E s \in SeqsUpTo(SkewRows, MaxSkewRows), e \in EarningsDates :
          call = [skew_rows |-> s, earnings_date_yyyy_mm_dd |-> e]
    /\ ret = None
    /\ Idle

CallPickFrontBack ==
    /\ pc = "call_pick_front_back"
    /\ ret' = pick_front_back(call.skew_rows, call.earnings_date_yyyy_mm_dd)
    /\ pc' = "pick_front_back_done"
    /\ Frozen

NextPick == CallPickFrontBack

SpecPick == InitPick /\ [][NextPick]_vars

----------------------------------------------------------------------------
(* main.py: the run from the IBKR connection to the summary CSV *)

\* an UnderlyingBar as fetch_underlying_daily_bars builds it
UnderlyingBar(date, close, volume) == [date |-> date, close |-> close, volume |-> volume]

\* upsert_bars: every bar whose date normalises replaces the row of the same
\* trade_date text or is added; rows under another text of the day are left
RECURSIVE upsert_bars(_, _)
upsert_bars(table, bars) ==
    IF bars = <<>> THEN table
    ELSE LET b == Head(bars)
             nd == _normalize_trade_date(RawDate("hyphen", b.date))
             kept == {r \in table : r.trade_date # RawDate("hyphen", nd)}
         IN  IF nd = None THEN upsert_bars(table, Tail(bars))
             ELSE upsert_bars(kept \cup {Bar("hyphen", nd, b.close, b.volume)}, Tail(bars))

\* SpotOrRaise without the test of line 127
SpotOrRaise_any_close(snapshot, bars_fallback) ==
    IF snapshot # None THEN snapshot
    ELSE IF bars_fallback # <<>>
         THEN <<bars_fallback[Len(bars_fallback)].close, "hist_close_fallback">>
    ELSE Raised("RuntimeError")

\* ibkr_client.fetch_spot_with_fallback, given what the snapshots gave: the price
\* of a snapshot tier if one had a price, else the last bar's close if positive
SpotOrRaise(snapshot, bars_fallback) ==
    IF snapshot # None THEN snapshot
    ELSE IF bars_fallback # <<>>
            /\ FPositive(bars_fallback[Len(bars_fallback)].close)
         THEN <<bars_fallback[Len(bars_fallback)].close, "hist_close_fallback">>
    ELSE Raised("RuntimeError")

\* vols[-30:] and closes, off load_recent
Column(triples, c) == [k \in 1..Len(triples) |-> triples[k][c]]

FloatsOf(ints) == [k \in 1..Len(ints) |-> FloatOfInt(ints[k])]

\* analytics.avg
avg(values) == IF values = <<>> THEN None ELSE FDiv(FSum(values), FloatOfInt(Len(values)))

\* rv > 0 for an estimate kept as a term: the deviation of the logarithms is
\* positive exactly when two of the ratios differ
VolPositive(rv) == \E j, k \in 1..Len(rv[2]) : rv[2][j] # rv[2][k]

\* iv_front / rv, a term as rv is
IvOverRv(iv_front, rv) ==
    IF iv_front # None /\ rv # None /\ VolPositive(rv) THEN <<"iv_over_rv", iv_front, rv>>
    ELSE None

\* main.pick_front_back_no_earnings
pick_front_back_no_earnings(skew_rows) ==
    IF \E k \in 1..Len(skew_rows) : IsRaised(_expiry_to_date(skew_rows[k].expiry))
    THEN Raised("ValueError")
    ELSE LET rows_sorted == SortByExpiry(skew_rows)
         IN  IF Len(rows_sorted) < 2 THEN Raised("RuntimeError")
             ELSE LET front == rows_sorted[1]
                      target == _expiry_to_date(front.expiry)[1] + 30
                  IN  <<front, MinByDistance(Tail(Tail(rows_sorted)), target, rows_sorted[2])>>

\* round(x, ndigits) of a float of exact value x: to the nearest multiple of
\* 10^-ndigits, a half going to the even neighbour
RECURSIVE Pow10(_)
Pow10(n) == IF n = 0 THEN 1 ELSE 10 * Pow10(n - 1)

round(x, ndigits) ==
    LET scale == Pow10(ndigits)
        num == x[1] * scale
        q == num \div x[2]
        twice == 2 * (num % x[2])
        up == twice > x[2] \/ (twice = x[2] /\ q % 2 = 1)
    IN  Frac(IF up THEN q + 1 ELSE q, scale)

\* `round(v, n) if v is not None else ""`, the empty text being <<>>
Cell(v, ndigits) == IF v = None THEN <<>> ELSE round(v, ndigits)

\* the same for a value kept as a term
TermCell(v, ndigits) == IF v = None THEN <<>> ELSE <<"round", v, ndigits>>

Flag(b) == IF b THEN "1" ELSE "0"

\* compute_earnings_moves_from_db as one call: the list of records, or the
\* exception of the first event whose date does not parse
RECURSIVE MovesFrom(_, _, _, _)
MovesFrom(ds, cbd, evs, acc) ==
    IF evs = <<>> THEN acc
    ELSE LET triple == _nearest_trading_dates(ds, Head(evs)[1])
         IN  IF IsRaised(triple) THEN triple
             ELSE MovesFrom(ds, cbd, Tail(evs),
                            AppendMove(acc, EarningsEventMove(cbd, Head(evs)[1], Head(evs)[2], triple)))

compute_earnings_moves_from_db(table, earnings_dates_with_timing) ==
    LET loaded == load_all_dates_closes(table)
    IN  MovesFrom(loaded[1], loaded[2], earnings_dates_with_timing, <<>>)

MaxMainRows == 2

\* the stored history before the run: none, two sessions, or a session stored
\* under its legacy text as well
MainTables ==
    { {},
      {Bar("hyphen", <<2024, 1, 12>>, FloatOfInt(100), 1000),
       Bar("hyphen", <<2024, 1, 16>>, FloatOfInt(110), 1100)},
      {Bar("hyphen", <<2024, 1, 16>>, FloatOfInt(110), 1100),
       Bar("deco", <<2024, 1, 16>>, FloatOfInt(111), 1100)} }

MainEvents == {<<>>, << <<<<2024, 1, 15>>, "BMO">> >>}

MainSkewRows ==
    { SkewRow(<<2024, 7, 5>>, FloatOfInt(100), Frac(3, 10)),
      SkewRow(<<2024, 7, 19>>, FloatOfInt(100), Frac(3, 10)),
      SkewRow(<<2024, 8, 16>>, FloatOfInt(100), Frac(1, 4)) }

NextEarningsDates == {None, <<2024, 7, 10>>, <<2024, 9, 30>>}

\* what IBKR can answer: no bars, or bars ending on a positive or a zero close
BarsOutcomes ==
    { <<>>,
      <<UnderlyingBar(<<2024, 2, 1>>, FloatOfInt(100), 900)>>,
      <<UnderlyingBar(<<2024, 2, 1>>, FloatOfInt(0), 0)>> }

\* no snapshot price, or a live one
SnapshotOutcomes == {None, <<FloatOfInt(101), "snapshot_live">>}

\* fetch_term_structure_live returns its five values or raises
LiveOutcomes ==
    { Raised("RuntimeError"),
      <<<<2024, 7, 19>>, <<2024, 8, 16>>, FloatOfInt(100), Frac(3, 10), Frac(1, 4)>> }

\* fetch_atm_straddle_mid returns (None, quality) or (mid, quality)
StraddleOutcomes ==
    { <<None, "C:na|P:na|retry:delayed|C2:na|P2:na">>, <<FloatOfInt(5), "C:mid|P:mid">> }

\* lines 171-195, and the connection of line 199
InitMain ==
    /\ pc = "ibkr_connected"
    /\ rows \in MainTables
    /\ events \in MainEvents
    /\ \E s \in SeqsUpTo(MainSkewRows, MaxMainRows), e \in NextEarningsDates :
          call = [skew_rows |-> s, next_earnings_date |-> e]
    /\ frame = [ connected |-> TRUE, exception |-> NoneStr, bars |-> <<>>,
                 term_source |-> "", front_expiry |-> <<>>, back_expiry |-> <<>>,
                 atm_strike_used |-> None, iv_front |-> None, iv_back |-> None,
                 slope |-> None, ratio |-> None,
                 straddle_mid |-> None, implied_move_pct |-> None, quote_quality |-> "",
                 spot |-> None, spot_src |-> "",
                 avg_vol_30 |-> None, rv20 |-> None, rv30 |-> None,
                 iv_rv20 |-> None, iv_rv30 |-> None ]
    /\ out = <<>>
    /\ ret = None
    /\ dates_sorted = <<>>
    /\ close_by_date = EmptyDict
    /\ i = 0

MainFrozen == UNCHANGED <<events, dates_sorted, close_by_date, i, call>>

\* an exception inside the try leaves for the finally clause
Raise(kind) == [frame EXCEPT !.exception = kind]

\* lines 201-211; has_min_history only sets the length of the request
FetchBars ==
    /\ pc = "ibkr_connected"
    /\ \E bars \in BarsOutcomes :
          IF bars = <<>>
          THEN /\ frame' = Raise("RuntimeError")
               /\ pc' = "finally"
               /\ rows' = rows
          ELSE /\ rows' = upsert_bars(rows, bars)
               /\ frame' = [frame EXCEPT !.bars = bars]
               /\ pc' = "fetch_spot"
    /\ UNCHANGED <<out, ret>>
    /\ MainFrozen

\* line 214
FetchSpot ==
    /\ pc = "fetch_spot"
    /\ \E snapshot \in SnapshotOutcomes :
          LET r == SpotOrRaise(snapshot, frame.bars)
          IN  IF IsRaised(r)
              THEN frame' = Raise(r[2]) /\ pc' = "finally"
              ELSE /\ frame' = [frame EXCEPT !.spot = r[1], !.spot_src = r[2]]
                   /\ pc' = "load_recent"
    /\ UNCHANGED <<rows, out, ret>>
    /\ MainFrozen

\* lines 217-222
RecentHistory ==
    /\ pc = "load_recent"
    /\ LET recent == load_recent(rows, RecentLimit)
           closes == Column(recent, 2)
           vols == Column(recent, 3)
       IN  frame' = [frame EXCEPT
                       !.avg_vol_30 = IF Len(vols) >= 30 THEN avg(FloatsOf(LastSlice(vols, 30)))
                                      ELSE None,
                       !.rv20 = realized_vol_annualized(closes, 20),
                       !.rv30 = realized_vol_annualized(closes, 30)]
    /\ pc' = "term_structure"
    /\ UNCHANGED <<rows, out, ret>>
    /\ MainFrozen

\* what lines 228-233 and 237-242 store of a pair, or the exception
TermFromPair(pair) ==
    IF IsRaised(pair) THEN Raise(pair[2])
    ELSE [frame EXCEPT !.front_expiry = pair[1].expiry,
                       !.back_expiry = pair[2].expiry,
                       !.atm_strike_used = pair[1].atm_strike,
                       !.iv_front = pair[1].atm_iv,
                       !.iv_back = pair[2].atm_iv,
                       !.term_source = "skew_db"]

\* lines 225-233
TermFromSkewDb ==
    /\ pc = "term_structure"
    /\ Len(call.skew_rows) >= 2
    /\ call.next_earnings_date # None
    /\ LET pair == pick_front_back(call.skew_rows, call.next_earnings_date)
       IN  /\ frame' = TermFromPair(pair)
           /\ pc' = IF IsRaised(pair) THEN "finally" ELSE "ratios"
    /\ UNCHANGED <<rows, out, ret>>
    /\ MainFrozen

\* lines 234-242
TermFromSkewDbNoAnchor ==
    /\ pc = "term_structure"
    /\ Len(call.skew_rows) >= 2
    /\ call.next_earnings_date = None
    /\ LET pair == pick_front_back_no_earnings(call.skew_rows)
       IN  /\ frame' = TermFromPair(pair)
           /\ pc' = IF IsRaised(pair) THEN "finally" ELSE "ratios"
    /\ UNCHANGED <<rows, out, ret>>
    /\ MainFrozen

\* lines 243-251: the exception of the live fallback is caught and logged
TermLive ==
    /\ pc = "term_structure"
    /\ Len(call.skew_rows) < 2
    /\ \E live \in LiveOutcomes :
          frame' = IF IsRaised(live)
                   THEN [frame EXCEPT !.term_source = "live_ibkr_greeks_snapshot"]
                   ELSE [frame EXCEPT !.term_source = "live_ibkr_greeks_snapshot",
                                      !.front_expiry = live[1],
                                      !.back_expiry = live[2],
                                      !.atm_strike_used = live[3],
                                      !.iv_front = live[4],
                                      !.iv_back = live[5]]
    /\ pc' = "ratios"
    /\ UNCHANGED <<rows, out, ret>>
    /\ MainFrozen

\* lines 253-260
Ratios ==
    /\ pc = "ratios"
    /\ LET sr == IF frame.iv_front # None /\ frame.iv_back # None
                 THEN term_slope_ratio(frame.iv_front, frame.iv_back)
                 ELSE <<frame.slope, frame.ratio>>
       IN  frame' = [frame EXCEPT !.slope = sr[1],
                                  !.ratio = sr[2],
                                  !.iv_rv20 = IvOverRv(frame.iv_front, frame.rv20),
                                  !.iv_rv30 = IvOverRv(frame.iv_front, frame.rv30)]
    /\ pc' = "implied_move"
    /\ UNCHANGED <<rows, out, ret>>
    /\ MainFrozen

\* lines 263-267
ImpliedMove ==
    /\ pc = "implied_move"
    /\ frame.front_expiry # <<>>
    /\ frame.atm_strike_used # None
    /\ \E s \in StraddleOutcomes :
          frame' = [frame EXCEPT
                      !.straddle_mid = s[1],
                      !.quote_quality = s[2],
                      !.implied_move_pct =
                          IF s[1] # None /\ FTruthy(s[1]) /\ frame.spot # None
                             /\ FTruthy(frame.spot) /\ FPositive(frame.spot)
                          THEN FDiv(s[1], frame.spot) ELSE @]
    /\ pc' = "finally"
    /\ UNCHANGED <<rows, out, ret>>
    /\ MainFrozen

\* lines 268-269
SkipImpliedMove ==
    /\ pc = "implied_move"
    /\ frame.front_expiry = <<>> \/ frame.atm_strike_used = None
    /\ pc' = "finally"
    /\ UNCHANGED <<rows, out, ret, frame>>
    /\ MainFrozen

\* lines 271-273: disconnect, then on with main or out with the exception
Disconnect ==
    /\ pc = "finally"
    /\ frame' = [frame EXCEPT !.connected = FALSE]
    /\ pc' = IF frame.exception # NoneStr THEN "aborted" ELSE "earnings_moves"
    /\ UNCHANGED <<rows, out, ret>>
    /\ MainFrozen

\* lines 277-279
ComputeMoves ==
    /\ pc = "earnings_moves"
    /\ LET moves == compute_earnings_moves_from_db(rows, events)
       IN  IF IsRaised(moves)
           THEN /\ frame' = Raise(moves[2])
                /\ pc' = "aborted"
                /\ out' = out
           ELSE /\ out' = moves
                /\ pc' = "write_summary"
                /\ frame' = frame
    /\ UNCHANGED <<rows, ret>>
    /\ MainFrozen

\* lines 281-343: the row of the summary CSV
WriteSummary ==
    /\ pc = "write_summary"
    /\ LET earnings_stats == summarize_earnings_moves(out, frame.implied_move_pct, 8)
       IN  ret' = [ spot |-> Cell(frame.spot, 4),
                    spot_source |-> frame.spot_src,
                    front_expiry |-> frame.front_expiry,
                    back_expiry |-> frame.back_expiry,
                    atm_strike_used |-> Cell(frame.atm_strike_used, 4),
                    atm_iv_front |-> Cell(frame.iv_front, 6),
                    atm_iv_back |-> Cell(frame.iv_back, 6),
                    term_slope |-> Cell(frame.slope, 6),
                    term_ratio |-> Cell(frame.ratio, 6),
                    term_structure_source |-> frame.term_source,
                    atm_straddle_mid |-> Cell(frame.straddle_mid, 6),
                    implied_move_pct |-> Cell(frame.implied_move_pct, 6),
                    quote_quality |-> frame.quote_quality,
                    avg_vol_30 |-> Cell(frame.avg_vol_30, 2),
                    rv20 |-> TermCell(frame.rv20, 6),
                    rv30 |-> TermCell(frame.rv30, 6),
                    iv_rv20 |-> TermCell(frame.iv_rv20, 6),
                    iv_rv30 |-> TermCell(frame.iv_rv30, 6),
                    earnings_n_total |-> earnings_stats.n_events_total,
                    earnings_n_used |-> earnings_stats.n_events_used,
                    implied_percentile_rank |-> Cell(earnings_stats.implied_percentile_rank, 2),
                    vol_window_ok |-> Flag(frame.avg_vol_30 # None),
                    rv_window_ok |-> Flag(frame.rv20 # None /\ frame.rv30 # None),
                    term_structure_ok |-> Flag(frame.iv_front # None /\ frame.iv_back # None),
                    implied_move_ok |-> Flag(frame.implied_move_pct # None),
                    earnings_hist_ok |-> Flag(earnings_stats.earnings_hist_ok) ]
    /\ pc' = "done"
    /\ UNCHANGED <<rows, out, frame>>
    /\ MainFrozen

NextMain ==
    \/ FetchBars
    \/ FetchSpot
    \/ RecentHistory
    \/ TermFromSkewDb
    \/ TermFromSkewDbNoAnchor
    \/ TermLive
    \/ Ratios
    \/ ImpliedMove
    \/ SkipImpliedMove
    \/ Disconnect
    \/ ComputeMoves
    \/ WriteSummary

SpecMain == InitMain /\ [][NextMain]_vars

----------------------------------------------------------------------------
(* Properties of the calendar alignment, under SpecAlign *)

\* a calendar day is on or before another: year, then month, then day
OnOrBefore(a, b) == a[1] * 10000 + a[2] * 100 + a[3] <= b[1] * 10000 + b[2] * 100 + b[3]

AllNone == <<None, None, None>>

\* positions of the trading dates on or before the target
AtOrBefore(ds, target) == {k \in 1..Len(ds) : OnOrBefore(ds[k], target)}

\* C1: for a strictly increasing list of trading dates and a target calendar
\* date, D0 is the greatest trading date <= target, D-1 the element just before
\* it (None when D0 is first), D+1 the element just after it (None when D0 is
\* last); with an empty list, or no trading date <= target, all three are
\* None; a target that is a trading date is its own D0.
C1_NearestTradingDates ==
    pc = "nearest_done" =>
        LET ds == call.dates_sorted
            target == call.target
            le == AtOrBefore(ds, target)
        IN  /\ ds = <<>> => ret = AllNone
            /\ Parsable(target) =>
                 IF le = {} THEN ret = AllNone
                 ELSE LET k == CHOOSE m \in le : \A j \in le : j <= m
                      IN  /\ ret[2] = ds[k]
                          /\ ret[1] = IF k = 1 THEN None ELSE ds[k - 1]
                          /\ ret[3] = IF k = Len(ds) THEN None ELSE ds[k + 1]
                          /\ (\E j \in 1..Len(ds) : ds[j] = target) => ret[2] = target

\* a target that is itself a trading date with a neighbour on either side
C1_Witness ==
    /\ pc = "nearest_done"
    /\ ~IsRaised(ret)
    /\ ret[2] = call.target
    /\ ret[1] # None
    /\ ret[3] # None

Jan(d) == <<2024, 1, d>>

C2_Case ==
    /\ pc = "nearest_done"
    /\ call.dates_sorted = <<Jan(2), Jan(3), Jan(5)>>
    /\ call.target = Jan(4)

\* C2 as stated: trading dates 2024-01-02, 2024-01-03, 2024-01-05 and target
\* 2024-01-04 give D-1 = 2024-01-03, D0 = 2024-01-03, D+1 = 2024-01-05.
C2_AsStated == C2_Case => ret = <<Jan(3), Jan(3), Jan(5)>>

\* C2, amended: the same inputs give D-1 = 2024-01-02 (the trading date just
\* before D0), D0 = 2024-01-03 and D+1 = 2024-01-05.
C2_ExampleAmended == C2_Case => ret = <<Jan(2), Jan(3), Jan(5)>>

C2_Witness == C2_Case /\ ~IsRaised(ret) /\ ret[2] = Jan(3)

----------------------------------------------------------------------------
(* Properties of the emitted records, under Spec *)

Records == {out[k] : k \in 1..Len(out)}

\* both closes present and strictly positive
PairAvailable(a, b) == a # None /\ b # None /\ a[1] > 0 /\ b[1] > 0

\* |later / earlier - 1| written as |later - earlier| / earlier
RelativeMove(earlier, later) == FDiv(FAbs(FSub(later, earlier)), earlier)

StoredClose(d) == IF d = None THEN None ELSE close_by_date[d]

\* C3: in every emitted record the pre-market-like move is non-null iff the
\* closes of D-1 and D0 are both present and strictly positive, and then equals
\* |close(D0)/close(D-1) - 1|; likewise the after-market-like move with D0 and
\* D+1; the note holds "missing_bmo_inputs" exactly when the first is null and
\* "missing_amc_inputs" exactly when the second is null, joined by "|".
C3_CandidateMoves ==
    \A r \in Records :
        /\ r.close_dm1 = StoredClose(r.d_m1)
        /\ r.close_d0 = StoredClose(r.d0)
        /\ r.close_dp1 = StoredClose(r.d_p1)
        /\ r.move_bmo_like_pct # None <=> PairAvailable(r.close_dm1, r.close_d0)
        /\ r.move_amc_like_pct # None <=> PairAvailable(r.close_d0, r.close_dp1)
        /\ PairAvailable(r.close_dm1, r.close_d0) =>
               r.move_bmo_like_pct = RelativeMove(r.close_dm1, r.close_d0)
        /\ PairAvailable(r.close_d0, r.close_dp1) =>
               r.move_amc_like_pct = RelativeMove(r.close_d0, r.close_dp1)
        /\ r.note = CASE r.move_bmo_like_pct = None /\ r.move_amc_like_pct = None ->
                             "missing_bmo_inputs|missing_amc_inputs"
                      [] r.move_bmo_like_pct = None /\ r.move_amc_like_pct # None ->
                             "missing_bmo_inputs"
                      [] r.move_bmo_like_pct # None /\ r.move_amc_like_pct = None ->
                             "missing_amc_inputs"
                      [] OTHER -> ""

\* a record with a move on one side and a non-positive close on the other
C3_Witness ==
    \E r \in Records :
        /\ r.move_bmo_like_pct # None
        /\ r.move_amc_like_pct = None
        /\ r.close_dp1 # None
        /\ r.close_dp1[1] < 0
        /\ r.note = "missing_amc_inputs"

BeforeMarket(timing) == timing \in {"BMO", "bmo"}

AfterMarket(timing) == timing \in {"AMC", "amc"}

\* the store of the example: closes 100, 110, 99 on 2024-01-03..05
ExampleStore ==
    rows = { Row("hyphen", Jan(3), FloatOfInt(100)),
             Row("hyphen", Jan(4), FloatOfInt(110)),
             Row("hyphen", Jan(5), FloatOfInt(99)) }

\* C4: a before-market event always uses the pre-market-like move with the
\* window tag BMO_like, an after-market event the after-market-like move with
\* the tag AMC_like, also when that candidate is null and whatever the other
\* candidate is; closes 100, 110, 99 with a BMO event on the middle date give
\* used = 0.10.
C4_TimingForcesWindow ==
    \A k \in 1..Len(out) :
        LET r == out[k]
            timing == events[k][2]
        IN  /\ BeforeMarket(timing) =>
                 r.move_used_pct = r.move_bmo_like_pct /\ r.used_window = "BMO_like"
            /\ AfterMarket(timing) =>
                 r.move_used_pct = r.move_amc_like_pct /\ r.used_window = "AMC_like"
            /\ (ExampleStore /\ events[k] = <<Jan(4), "BMO">>) =>
                 r.move_used_pct = Frac(10, 100)

\* a before-market event whose after-market-like candidate is the larger one
C4_Witness ==
    \E k \in 1..Len(out) :
        /\ BeforeMarket(events[k][2])
        /\ out[k].move_bmo_like_pct # None
        /\ out[k].move_amc_like_pct # None
        /\ FLt(out[k].move_bmo_like_pct, out[k].move_amc_like_pct)
        /\ out[k].used_window = "BMO_like"

\* C5: for a timing that is neither before- nor after-market: with both
\* candidates present the used move is the larger, the pre-market-like one on a
\* tie, and the tag names the one chosen; with one candidate present it is used
\* with its tag; with none the used move and the tag are both null.
C5_UnknownTiming ==
    \A k \in 1..Len(out) :
        LET r == out[k]
            bmo == r.move_bmo_like_pct
            amc == r.move_amc_like_pct
        IN  (~BeforeMarket(events[k][2]) /\ ~AfterMarket(events[k][2])) =>
              /\ (bmo # None /\ amc # None) =>
                    /\ FLe(bmo, r.move_used_pct) /\ FLe(amc, r.move_used_pct)
                    /\ FLt(amc, bmo) => (r.move_used_pct = bmo /\ r.used_window = "BMO_like")
                    /\ FLt(bmo, amc) => (r.move_used_pct = amc /\ r.used_window = "AMC_like")
                    /\ bmo = amc => (r.move_used_pct = bmo /\ r.used_window = "BMO_like")
              /\ (bmo # None /\ amc = None) =>
                    (r.move_used_pct = bmo /\ r.used_window = "BMO_like")
              /\ (bmo = None /\ amc # None) =>
                    (r.move_used_pct = amc /\ r.used_window = "AMC_like")
              /\ (bmo = None /\ amc = None) =>
                    (r.move_used_pct = None /\ r.used_window = NoneStr)

\* an event of unknown timing whose two candidates are equal
C5_Witness ==
    \E k \in 1..Len(out) :
        /\ events[k][2] \in {"UNKNOWN", ""}
        /\ out[k].move_bmo_like_pct # None
        /\ out[k].move_bmo_like_pct = out[k].move_amc_like_pct
        /\ out[k].used_window = "BMO_like"

\* C6: in every record a non-null used move is the candidate its window tag
\* names (move_bmo_like_pct for BMO_like, move_amc_like_pct for AMC_like), and a
\* non-null used move never comes with a null tag.
C6_UsedIsTaggedCandidate ==
    \A r \in Records :
        r.move_used_pct # None =>
            /\ r.used_window # NoneStr
            /\ \/ r.used_window = "BMO_like" /\ r.move_used_pct = r.move_bmo_like_pct
               \/ r.used_window = "AMC_like" /\ r.move_used_pct = r.move_amc_like_pct

\* an event of unknown timing that took the after-market-like move over a
\* smaller pre-market-like one
C6_Witness ==
    \E r \in Records :
        /\ r.timing = "UNKNOWN"
        /\ r.move_bmo_like_pct # None
        /\ r.move_used_pct # None
        /\ r.move_used_pct # r.move_bmo_like_pct
        /\ r.used_window = "AMC_like"

AllEventsParsable == \A k \in 1..Len(events) : Parsable(events[k][1])

\* C7: with well-formed event dates the computation raises nothing, whatever
\* the stored history, and returns one record per event, in input order, each
\* with its event's date; a gap shows as null fields and a note.
C7_OneRecordPerEvent ==
    /\ AllEventsParsable => pc # "raised"
    /\ pc = "returned" =>
          /\ Len(out) = Len(events)
          /\ \A k \in 1..Len(events) : out[k].earnings_date = events[k][1]
    /\ \A r \in Records :
          (r.move_bmo_like_pct = None \/ r.move_amc_like_pct = None) <=> r.note # ""

\* two events returned, the first one before the start of the history
C7_Witness ==
    /\ pc = "returned"
    /\ Len(events) = 2
    /\ Len(out) = 2
    /\ rows # {}
    /\ out[1].d0 = None
    /\ out[1].note # ""
    /\ out[2].d0 # None

\* C8: an event whose date text cannot be parsed makes the computation fail
\* at once; no record is ever emitted for such an event.
C8_MalformedDateRaises ==
    /\ \A r \in Records : Parsable(r.earnings_date)
    /\ \A k \in 1..i : Parsable(events[k][1])

----------------------------------------------------------------------------
(* Properties of the summary, under SpecSummary *)

UsedPositions(moves) == {k \in 1..Len(moves) : moves[k].move_used_pct # None}

\* the j-th smallest used move, counted with repetitions
JthSmallest(moves, j) ==
    LET pos == UsedPositions(moves)
        v == CHOOSE x \in {moves[k].move_used_pct : k \in pos} :
                /\ Cardinality({k \in pos : FLt(moves[k].move_used_pct, x)}) < j
                /\ Cardinality({k \in pos : FLe(moves[k].move_used_pct, x)}) >= j
    IN  v

\* the interpolated percentile at num/den of the used moves
Interpolated(moves, num, den) ==
    LET n == Cardinality(UsedPositions(moves))
        lo == ((n - 1) * num) \div den
        rem == ((n - 1) * num) % den
    IN  IF rem = 0 THEN JthSmallest(moves, lo + 1)
        ELSE FAdd(JthSmallest(moves, lo + 1),
                  FMul(Frac(rem, den),
                       FSub(JthSmallest(moves, lo + 2), JthSmallest(moves, lo + 1))))

RECURSIVE UsedTotal(_, _)
UsedTotal(moves, k) ==
    IF k = 0 THEN FloatOfInt(0)
    ELSE IF moves[k].move_used_pct = None THEN UsedTotal(moves, k - 1)
    ELSE FAdd(UsedTotal(moves, k - 1), moves[k].move_used_pct)

\* C9: n_events_total is the length of the input list, n_events_used the
\* number of records with a non-null used move, and earnings_hist_ok is true
\* iff n_events_used >= min_valid_events; 4 usable events with threshold 8
\* give false.
C9_CountsAndThreshold ==
    pc = "summarize_done" =>
        LET n_used == Cardinality(UsedPositions(call.moves))
        IN  /\ ret.n_events_total = Len(call.moves)
            /\ ret.n_events_used = n_used
            /\ ret.n_events_used <= ret.n_events_total
            /\ ret.earnings_hist_ok <=> n_used >= call.min_valid_events
            /\ (n_used = 4 /\ call.min_valid_events = 8) => ret.earnings_hist_ok = FALSE

\* as many usable events as the threshold asks for, next to an unusable one
C9_Witness ==
    /\ pc = "summarize_done"
    /\ ret.n_events_used = call.min_valid_events
    /\ ret.n_events_used > 0
    /\ ret.n_events_used < ret.n_events_total
    /\ ret.earnings_hist_ok

\* C10: mean, median, p75 and max are taken over exactly the non-null used
\* moves in ascending order, whatever the order of the records: max is the
\* largest, median and p75 the interpolated percentiles at 0.5 and 0.75, mean
\* the arithmetic mean; each is null iff no record has a non-null used move.
C10_Statistics ==
    pc = "summarize_done" =>
        LET moves == call.moves
            n == Cardinality(UsedPositions(moves))
        IN  IF n = 0
            THEN /\ ret.mean_move = None
                 /\ ret.median_move = None
                 /\ ret.p75_move = None
                 /\ ret.max_move = None
            ELSE /\ ret.max_move = JthSmallest(moves, n)
                 /\ \A k \in UsedPositions(moves) : FLe(moves[k].move_used_pct, ret.max_move)
                 /\ ret.median_move = Interpolated(moves, 1, 2)
                 /\ ret.p75_move = Interpolated(moves, 3, 4)
                 /\ FMul(ret.mean_move, FloatOfInt(n)) = UsedTotal(moves, Len(moves))

\* three usable moves given in descending order around a record without one
C10_Witness ==
    /\ pc = "summarize_done"
    /\ Len(call.moves) = 4
    /\ ret.n_events_used = 3
    /\ call.moves[1].move_used_pct = Frac(1, 5)
    /\ call.moves[4].move_used_pct = Frac(1, 20)
    /\ ret.max_move = Frac(1, 5)
    /\ ret.median_move # ret.p75_move

\* C11: the implied percentile rank is null iff no implied move is supplied or
\* no move is usable; otherwise it is 100 x (number of used moves <= implied
\* move) / n_used, a used move equal to the implied move counting as at or
\* below, so it lies in [0, 100]; used moves 0.05, 0.10, 0.15, 0.20 with
\* implied move 0.12 give 50.
C11_ImpliedRank ==
    pc = "summarize_done" =>
        LET moves == call.moves
            imp == call.current_implied_move_pct
            pos == UsedPositions(moves)
            n == Cardinality(pos)
        IN  /\ ret.implied_percentile_rank = None <=> (imp = None \/ n = 0)
            /\ (imp # None /\ n > 0) =>
                  LET atOrBelow == Cardinality({k \in pos : ~FLt(imp, moves[k].move_used_pct)})
                  IN  /\ ret.implied_percentile_rank = Frac(100 * atOrBelow, n)
                      /\ FLe(FloatOfInt(0), ret.implied_percentile_rank)
                      /\ FLe(ret.implied_percentile_rank, FloatOfInt(100))
            /\ ( /\ Len(moves) = 4
                 /\ \A k \in 1..4 : moves[k].move_used_pct = Frac(5 * k, 100)
                 /\ imp = Frac(12, 100) )
               => ret.implied_percentile_rank = FloatOfInt(50)

\* an implied move equal to one of several used moves, counted at or below
C11_Witness ==
    /\ pc = "summarize_done"
    /\ call.current_implied_move_pct = Frac(1, 10)
    /\ ret.n_events_used = 3
    /\ \E k \in 1..Len(call.moves) : call.moves[k].move_used_pct = Frac(1, 10)
    /\ \E k \in 1..Len(call.moves) : call.moves[k].move_used_pct = Frac(1, 20)
    /\ \E k \in 1..Len(call.moves) : call.moves[k].move_used_pct = Frac(1, 5)
    /\ ret.implied_percentile_rank = Frac(200, 3)

----------------------------------------------------------------------------
(* Properties of the percentile, under SpecPercentile *)

\* the integer k with k <= a < k + 1, and the least integer >= a, for 0 <= a <= 100
FloorOf(a) == CHOOSE k \in 0..100 : FLe(FloatOfInt(k), a) /\ FLt(a, FloatOfInt(k + 1))

CeilOf(a) == CHOOSE k \in 0..100 : FLe(a, FloatOfInt(k)) /\ FLt(FloatOfInt(k - 1), a)

PercentileAsClaimed(L, p) ==
    LET n == Len(L)
    IN  IF n = 0 THEN None
        ELSE IF ~FLt(FloatOfInt(0), p) THEN L[1]
        ELSE IF ~FLt(p, FloatOfInt(1)) THEN L[n]
        ELSE LET idx == Frac((n - 1) * p[1], p[2])
                 lo == FloorOf(idx)
                 hi == CeilOf(idx)
                 w == FSub(idx, FloatOfInt(lo))
             IN  FAdd(FMul(L[lo + 1], FSub(FloatOfInt(1), w)), FMul(L[hi + 1], w))

\* C12: for an ascending list L and any p, percentile and its copy _percentile
\* return no value for an empty L, min(L) for p <= 0, max(L) for p >= 1, and
\* otherwise L[lo]*(1-w) + L[hi]*w with idx = (n-1)*p, lo = floor(idx),
\* hi = ceil(idx), w = idx - lo; percentile([1,2,3,4], 0.5) = 2.5 and a
\* one-element list returns its element for every p.
C12_Percentile ==
    pc = "percentile_done" =>
        LET L == call.sorted_vals
            p == call.p
            n == Len(L)
        IN  \A r \in {ret.analytics, ret.earnings_moves} :
              /\ r = PercentileAsClaimed(L, p)
              /\ (n > 0 /\ FLe(p, FloatOfInt(0))) => \A k \in 1..n : FLe(r, L[k])
              /\ (n > 0 /\ FLe(FloatOfInt(1), p)) => \A k \in 1..n : FLe(L[k], r)
              /\ (L = <<FloatOfInt(1), FloatOfInt(2), FloatOfInt(3), FloatOfInt(4)>>
                    /\ p = Frac(1, 2)) => r = Frac(5, 2)
              /\ n = 1 => r = L[1]

\* an interpolation strictly between two different neighbours, at unequal weights
C12_Witness ==
    /\ pc = "percentile_done"
    /\ call.sorted_vals = <<FloatOfInt(1), FloatOfInt(2), FloatOfInt(4), FloatOfInt(10)>>
    /\ call.p = Frac(9, 10)
    /\ ret.analytics = Frac(82, 10)
    /\ ret.earnings_moves = Frac(82, 10)

----------------------------------------------------------------------------
(* Properties of the realized volatility, under SpecVol *)

\* C13: realized_vol_annualized(closes, W) returns no value iff there are fewer
\* than W+1 closes, or W < 2, or one of the trailing W+1 closes is <= 0; a
\* non-positive close before the trailing W+1 closes changes nothing, and in
\* every other case a number over the W trailing returns comes back, with no raise.
C13_RealizedVol ==
    pc = "realized_vol_done" =>
        LET c == call.closes
            W == call.window
            n == Len(c)
            trailing == IF n >= W + 1 THEN (n - W)..n ELSE {}
        IN  /\ ~IsRaised(ret)
            /\ ret = None <=>
                  \/ n < W + 1
                  \/ W < 2
                  \/ \E k \in trailing : FLe(c[k], FloatOfInt(0))
            /\ ret # None =>
                  /\ ret[1] = "sqrt252_x_stdev_ln"
                  /\ Len(ret[2]) = W
                  /\ \A k \in 1..W : ret[2][k] = Frac(c[n - W + k][1] * c[n - W + k - 1][2],
                                                      c[n - W + k][2] * c[n - W + k - 1][1])

\* a zero close ahead of the three trailing closes, and an estimate all the same
C13_Witness ==
    /\ pc = "realized_vol_done"
    /\ call.closes = <<FloatOfInt(0), FloatOfInt(100), FloatOfInt(110), FloatOfInt(100)>>
    /\ call.window = 2
    /\ ret = <<"sqrt252_x_stdev_ln", <<Frac(11, 10), Frac(10, 11)>> >>

----------------------------------------------------------------------------
(* Properties of the term structure, under SpecSlope *)

\* a - b and a / b on fractions, from numerators and denominators
Difference(a, b) == Frac(a[1] * b[2] - b[1] * a[2], a[2] * b[2])

Quotient(a, b) == Frac(a[1] * b[2], a[2] * b[1])

\* C14: term_slope_ratio(front, back) returns (no value, no value) when either
\* input is absent or back <= 0, and otherwise (front - back, front / back), the
\* two components present together; (0.30, 0.25) gives (0.05, 1.2) and
\* (0.30, 0) gives (no value, no value).
C14_TermSlopeRatio ==
    pc = "term_slope_ratio_done" =>
        LET f == call.iv_front
            b == call.iv_back
            blank == f = None \/ b = None \/ b[1] <= 0
        IN  /\ Len(ret) = 2
            /\ blank => ret = <<None, None>>
            /\ ~blank => ret = <<Difference(f, b), Quotient(f, b)>>
            /\ ret[1] = None <=> ret[2] = None
            /\ (f = Frac(30, 100) /\ b = Frac(25, 100)) => ret = <<Frac(5, 100), Frac(12, 10)>>
            /\ (f = Frac(30, 100) /\ b = FloatOfInt(0)) => ret = <<None, None>>

\* a backwardated pair: front above back, both components present
C14_Witness ==
    /\ pc = "term_slope_ratio_done"
    /\ call.iv_front = Frac(1, 2)
    /\ call.iv_back = Frac(1, 5)
    /\ ret = <<Frac(3, 10), Frac(5, 2)>>

----------------------------------------------------------------------------
(* Properties of the timing normalisation, under SpecTiming *)

\* two characters that are the same letter, whatever their case
SameLetter(a, b) ==
    \/ a = b
    \/ \E k \in 1..Len(LowerCase) : {a, b} = {LowerCase[k], UpperCase[k]}

\* the text holds the lower-case word somewhere, case ignored
Holds(x, word) ==
    /\ x.present
    /\ \E at \in 0..(Len(x.text) - Len(word)) :
          \A k \in 1..Len(word) : SameLetter(x.text[at + k], word[k])

SaysBefore(x) == Holds(x, <<"b", "m", "o">>) \/ Holds(x, <<"b", "e", "f", "o", "r", "e">>)

SaysAfter(x) == Holds(x, <<"a", "m", "c">>) \/ Holds(x, <<"a", "f", "t", "e", "r">>)

\* C15 as stated: every string containing "bmo" or "before" maps to BMO, every
\* string containing "amc" or "after" maps to AMC, every other string or an
\* absent value maps to UNKNOWN.
C15_AsStated ==
    pc = "normalize_timing_done" =>
        /\ ret[1] \in {"BMO", "AMC", "UNKNOWN"}
        /\ SaysBefore(call.x) => ret[1] = "BMO"
        /\ SaysAfter(call.x) => ret[1] = "AMC"
        /\ (~SaysBefore(call.x) /\ ~SaysAfter(call.x)) => ret[1] = "UNKNOWN"

\* C15: _normalize_timing maps every vendor timing string to exactly one of
\* BMO, AMC, UNKNOWN by case-insensitive substring matching, the after-market
\* words taking precedence: a string containing "amc" or "after" maps to AMC, a
\* string containing "bmo" or "before" and neither "amc" nor "after" maps to BMO,
\* and every other string or an absent value maps to UNKNOWN.
C15_AfterMarketFirst ==
    pc = "normalize_timing_done" =>
        /\ ret[1] \in {"BMO", "AMC", "UNKNOWN"}
        /\ SaysAfter(call.x) => ret[1] = "AMC"
        /\ (SaysBefore(call.x) /\ ~SaysAfter(call.x)) => ret[1] = "BMO"
        /\ (~SaysBefore(call.x) /\ ~SaysAfter(call.x)) => ret[1] = "UNKNOWN"

\* a string that names both sessions
C15_Witness ==
    /\ pc = "normalize_timing_done"
    /\ call.x = Str(<<"B", "e", "f", "o", "r", "e", "a", "f", "t", "e", "r">>)
    /\ ret = <<"AMC">>

----------------------------------------------------------------------------
(* Properties of the earnings bundle, under SpecBundle *)

\* the distinct dates before today among the rows the history windows returned
PastDatesReturned ==
    { r.date : r \in { q \in frame.history_rows :
                         /\ q.date # None
                         /\ Parsable(q.date)
                         /\ DateStrLess(q.date, frame.today) } }

\* the n most recent of a set of dates
MostRecent(S, n) == { d \in S : Cardinality({e \in S : DateStrLess(d, e)}) < n }

\* C16: for every non-negative n_last and every rows the queried windows return,
\* last_earnings holds at most n_last (date, timing) pairs, with pairwise
\* distinct dates all strictly before today, in ascending date order, and they
\* are the n_last most recent distinct past dates among the rows of the windows
\* that were queried.
C16_LastEarnings ==
    pc = "returned" =>
        LET L == ret.last_earnings
            n == call.n_last
        IN  /\ Len(L) <= n
            /\ \A j \in 1..Len(L) : DateStrLess(L[j][1], frame.today)
            /\ \A j \in 1..(Len(L) - 1) : DateStrLess(L[j][1], L[j + 1][1])
            /\ {L[j][1] : j \in 1..Len(L)} = MostRecent(PastDatesReturned, n)

\* the same with at least one pair asked for
C16_PositiveNLast == call.n_last >= 1 => C16_LastEarnings

\* a request failed, or a returned row carries a date that is no calendar day
RequestOrDateFailure ==
    \/ frame.failed
    \/ \E r \in frame.future_rows \cup frame.history_rows :
          r.date # None /\ ~Parsable(r.date)

\* the future window returned a row dated today or later
NextFound ==
    \E r \in frame.future_rows :
        r.date # None /\ Parsable(r.date) /\ ~DateStrLess(r.date, frame.today)

\* the reach of a history window in days: it ends yesterday
DaysBack(w) == _to_date(frame.today)[1] - w[1]

HistoryOrder == <<548, 1095, 1825>>

\* C23: fetch_earnings_bundle never raises. When a calendar request fails or a
\* returned row has an unparsable date, the record has no next earnings date,
\* an empty last_earnings and a non-empty error text; when every request
\* succeeds, error is null exactly when a next earnings date or at least one
\* past event was found. The history windows are requested in the order 18
\* months, 3 years, 5 years, a wider one only while fewer than n_last past
\* events have been collected.
C23_BundleErrors ==
    /\ pc \in {"returned", "returned_on_exception"} =>
          /\ DOMAIN ret = DOMAIN EarningsInfo(None, AbsentStr, <<>>, NoneStr)
          /\ IF RequestOrDateFailure
             THEN /\ ret.next_earnings_date = None
                  /\ ret.last_earnings = <<>>
                  /\ ret.error \notin {NoneStr, ""}
             ELSE ret.error = NoneStr <=> (NextFound \/ PastDatesReturned # {})
    /\ Len(out) <= 1 + Len(HistoryOrder)
    /\ \A k \in 2..Len(out) :
          /\ DaysBack(out[k]) = HistoryOrder[k - 1]
          /\ out[k][2] = _to_date(frame.today)[1] - 1
    /\ (pc = "fetch_chunk" /\ Len(out) >= 2) =>
          Cardinality(PastDatesReturned) < call.n_last

\* the widest window is requested after the narrower ones gave a past event,
\* and the request fails
C23_Witness ==
    /\ pc = "returned_on_exception"
    /\ frame.failed
    /\ Len(out) = 4
    /\ PastDatesReturned # {}
    /\ ret.last_earnings = <<>>

----------------------------------------------------------------------------
(* Properties of the stored price history, under SpecStore *)

\* the text of a row's date is one the two patterns accept
Normalises(r) == r.trade_date.fmt \in {"hyphen", "packed", "deco"}

\* a YYYY-MM-DD text: year, month and day and nothing else
CanonicalDate(d) == Len(d) = 3 /\ \A k \in 1..3 : d[k] \in Nat

\* C17: for any stored rows (hyphenated dates, packed dates with or without
\* decoration, several rows normalising to one date, unparsable dates),
\* load_all_dates_closes returns a strictly increasing date list without
\* duplicates, every entry in YYYY-MM-DD form, and a close mapping whose key
\* set is exactly the set of returned dates, so the close of any of the dates
\* the alignment can resolve is found.
C17_TradingDateIndex ==
    pc = "load_all_dates_closes_done" =>
        LET n == Len(dates_sorted)
            listed == {dates_sorted[k] : k \in 1..n}
        IN  /\ \A k \in 1..(n - 1) : DateStrLess(dates_sorted[k], dates_sorted[k + 1])
            /\ Cardinality(listed) = n
            /\ \A k \in 1..n : CanonicalDate(dates_sorted[k])
            /\ DOMAIN close_by_date = listed
            /\ listed = {r.trade_date.ymd : r \in {q \in rows : Normalises(q)}}
            /\ \A k \in 1..n : CloseOf(close_by_date, dates_sorted[k]) # None

\* one day stored three times over, next to a row that does not normalise
C17_Witness ==
    /\ pc = "load_all_dates_closes_done"
    /\ Cardinality({r \in rows : r.trade_date.ymd = <<2024, 1, 4>>}) = 3
    /\ dates_sorted = <<<<2024, 1, 4>>>>
    /\ close_by_date[<<2024, 1, 4>>] = FloatOfInt(112)

\* C18: for any stored rows, legacy packed rows next to hyphenated rows of the
\* same day included, the history load_recent returns is ascending by date,
\* has every date in YYYY-MM-DD form, and holds at most one
\* (date, close, volume) triple per date.
C18_RecentHistory ==
    pc = "load_recent_done" =>
        /\ \A k \in 1..(Len(ret) - 1) : ~DateStrLess(ret[k + 1][1], ret[k][1])
        /\ \A k \in 1..Len(ret) : CanonicalDate(ret[k][1])
        /\ \A j, k \in 1..Len(ret) : j # k => ret[j][1] # ret[k][1]

----------------------------------------------------------------------------
(* Properties of the choice of expiries, under SpecPick *)

\* days from the first of the two dates to the second
DaysBetween(a, b) == ToOrdinal(b[1], b[2], b[3]) - ToOrdinal(a[1], a[2], a[3])

\* C19: pick_front_back returns as front a row with the earliest expiry on or
\* after the earnings date, and as back a different row, among the remaining
\* rows with expiry on or after the earnings date, whose expiry is nearest to
\* the front expiry plus 30 days, so back expiry >= front expiry; with fewer
\* than two rows expiring on or after the earnings date it raises an error.
C19_FrontBack ==
    pc = "pick_front_back_done" =>
        LET R == call.skew_rows
            e == call.earnings_date_yyyy_mm_dd
            onOrAfter == {k \in 1..Len(R) : DaysBetween(e, R[k].expiry) >= 0}
            off(k, f) == Abs(DaysBetween(R[f].expiry, R[k].expiry) - 30)
        IN  IF Cardinality(onOrAfter) < 2 THEN IsRaised(ret)
            ELSE /\ Len(ret) = 2
                 /\ \E f \in onOrAfter, b \in onOrAfter :
                       /\ f # b
                       /\ ret = <<R[f], R[b]>>
                       /\ \A k \in onOrAfter : DaysBetween(R[f].expiry, R[k].expiry) >= 0
                       /\ \A k \in onOrAfter \ {f} : off(b, f) <= off(k, f)
                       /\ DaysBetween(R[f].expiry, R[b].expiry) >= 0

\* the front row is itself nearer to front + 30 days than the only other row
C19_Witness ==
    /\ pc = "pick_front_back_done"
    /\ call.earnings_date_yyyy_mm_dd = <<2024, 7, 10>>
    /\ call.skew_rows = << SkewRow(<<2024, 9, 20>>, FloatOfInt(100), Frac(1, 4)),
                           SkewRow(<<2024, 7, 5>>, FloatOfInt(100), Frac(1, 4)),
                           SkewRow(<<2024, 7, 19>>, FloatOfInt(100), Frac(3, 10)) >>
    /\ ret = <<SkewRow(<<2024, 7, 19>>, FloatOfInt(100), Frac(3, 10)), SkewRow(<<2024, 9, 20>>, FloatOfInt(100), Frac(1, 4))>>

----------------------------------------------------------------------------
(* Properties of a run of main, under SpecMain *)

\* the summary row leaves blank what the run did not obtain, its flag at 0
BlankWhereMissing ==
    /\ frame.spot = None => ret.spot = <<>>
    /\ (frame.iv_front = None \/ frame.iv_back = None) =>
          ret.term_slope = <<>> /\ ret.term_ratio = <<>> /\ ret.term_structure_ok = "0"
    /\ frame.implied_move_pct = None =>
          ret.implied_move_pct = <<>> /\ ret.implied_move_ok = "0"
    /\ (frame.rv20 = None \/ frame.rv30 = None) => ret.rv_window_ok = "0"
    /\ frame.rv20 = None => ret.rv20 = <<>>
    /\ frame.rv30 = None => ret.rv30 = <<>>

\* C20: once a latest skew trade date is found and the IBKR connection is up,
\* every run writes the summary CSV row: a metric that cannot be obtained
\* leaves its field blank and its flag at 0, and no unavailable metric ends the
\* run before the summary is written. A run has ended when main has returned
\* or an exception has left it.
C20_SummaryAlwaysWritten ==
    pc \in {"done", "aborted"} =>
        /\ pc = "done"
        /\ ret # None
        /\ BlankWhereMissing

\* the runs that do reach the end of main
C20_CompletedRuns == pc = "done" => ret # None /\ BlankWhereMissing


-----------------------------------------------------------------------------
(* ibkr_client.fetch_spot_with_fallback, statement by statement *)

\* float("nan"): no order relation holds of it
NaN == <<0, 0>>

\* a ticker off reqMktData, as far as the code reads it: what marketPrice()
\* gives (a float, or an exception), and the attributes last and close (None
\* when the attribute is missing)
Ticker(marketPrice, last, close) == <<marketPrice, last, close>>

\* _valid_price
_valid_price(x) == x # None /\ FPositive(x)

\* lines 85-94: the live snapshot's marketPrice(), else its last
LiveSpot(t) ==
    LET mp    == t[1]
        spot1 == IF ~IsRaised(mp) /\ _valid_price(mp) THEN mp ELSE None
    IN  IF spot1 = None /\ _valid_price(t[2]) THEN t[2] ELSE spot1

\* lines 106-117: the delayed snapshot's marketPrice(), else last, else close
DelayedSpot(t) ==
    LET spot2 == LiveSpot(t)
    IN  IF spot2 = None /\ _valid_price(t[3]) THEN t[3] ELSE spot2

MarketPrices == {Raised("Exception"), NaN, FloatOfInt(-1), FloatOfInt(101)}

LastPrices == {None, NaN, FloatOfInt(0), FloatOfInt(100)}

ClosePrices == {None, FloatOfInt(-1), FloatOfInt(99)}

Tickers == {Ticker(mp, l, c) : mp \in MarketPrices, l \in LastPrices, c \in ClosePrices}

\* bars_fallback: None or an empty list, or bars ending on some close
BarsFallbacks ==
    { <<>>,
      <<UnderlyingBar(<<2024, 2, 1>>, FloatOfInt(98), 900)>>,
      <<UnderlyingBar(<<2024, 2, 1>>, FloatOfInt(98), 900),
        UnderlyingBar(<<2024, 2, 2>>, FloatOfInt(0), 0)>>,
      <<UnderlyingBar(<<2024, 2, 1>>, FloatOfInt(0), 0),
        UnderlyingBar(<<2024, 2, 2>>, FloatOfInt(97), 800)>> }

\* lines 76-78; out is the sequence of calls made on ib, frame.open the
\* market-data requests not yet cancelled
InitSpot ==
    /\ pc = "req_live"
    /\ rows = {}
    /\ events = <<>>
    /\ dates_sorted = <<>>
    /\ close_by_date = EmptyDict
    /\ i = 0
    /\ out = <<>>
    /\ call \in {[bars_fallback |-> b] : b \in BarsFallbacks}
    /\ ret = None
    /\ frame = [t |-> None, spot |-> None, open |-> 0, live |-> None, delayed |-> None]

SpotFrozen == UNCHANGED <<rows, events, dates_sorted, close_by_date, i, call>>

\* lines 81-83
ReqLive ==
    /\ pc = "req_live"
    /\ \E t \in Tickers :
          frame' = [frame EXCEPT !.t = t, !.live = t, !.open = @ + 1]
    /\ out' = Append(out, "reqMktData(LIVE)")
    /\ pc' = "read_live"
    /\ UNCHANGED ret
    /\ SpotFrozen

\* lines 85-94
ReadLive ==
    /\ pc = "read_live"
    /\ frame' = [frame EXCEPT !.spot = LiveSpot(frame.t)]
    /\ pc' = "cancel_live"
    /\ UNCHANGED <<out, ret>>
    /\ SpotFrozen

\* line 96
CancelLive ==
    /\ pc = "cancel_live"
    /\ frame' = [frame EXCEPT !.open = @ - 1, !.t = None]
    /\ out' = Append(out, "cancelMktData")
    /\ pc' = "live_done"
    /\ UNCHANGED ret
    /\ SpotFrozen

\* lines 98-99
ReturnLive ==
    /\ pc = "live_done"
    /\ frame.spot # None
    /\ ret' = <<frame.spot, "snapshot_live">>
    /\ pc' = "returned"
    /\ UNCHANGED <<out, frame>>
    /\ SpotFrozen

\* lines 102-104
ReqDelayed ==
    /\ pc = "live_done"
    /\ frame.spot = None
    /\ \E t \in Tickers :
          frame' = [frame EXCEPT !.t = t, !.delayed = t, !.open = @ + 1]
    /\ out' = Append(out, "reqMktData(DELAYED_FROZEN)")
    /\ pc' = "read_delayed"
    /\ UNCHANGED ret
    /\ SpotFrozen

\* lines 106-117
ReadDelayed ==
    /\ pc = "read_delayed"
    /\ frame' = [frame EXCEPT !.spot = DelayedSpot(frame.t)]
    /\ pc' = "cancel_delayed"
    /\ UNCHANGED <<out, ret>>
    /\ SpotFrozen

\* line 119
CancelDelayed ==
    /\ pc = "cancel_delayed"
    /\ frame' = [frame EXCEPT !.open = @ - 1, !.t = None]
    /\ out' = Append(out, "cancelMktData")
    /\ pc' = "delayed_done"
    /\ UNCHANGED ret
    /\ SpotFrozen

\* lines 121-122
ReturnDelayed ==
    /\ pc = "delayed_done"
    /\ frame.spot # None
    /\ ret' = <<frame.spot, "snapshot_delayed">>
    /\ pc' = "returned"
    /\ UNCHANGED <<out, frame>>
    /\ SpotFrozen

\* lines 125-130
BarsFallback ==
    /\ pc = "delayed_done"
    /\ frame.spot = None
    /\ ret' = SpotOrRaise(None, call.bars_fallback)
    /\ out' = Append(out, "bars_fallback")
    /\ pc' = IF IsRaised(ret') THEN "raised" ELSE "returned"
    /\ UNCHANGED frame
    /\ SpotFrozen

NextSpot ==
    \/ ReqLive
    \/ ReadLive
    \/ CancelLive
    \/ ReturnLive
    \/ ReqDelayed
    \/ ReadDelayed
    \/ CancelDelayed
    \/ ReturnDelayed
    \/ BarsFallback

SpecSpot == InitSpot /\ [][NextSpot]_vars

-----------------------------------------------------------------------------
(* ibkr_client.fetch_atm_straddle_mid, statement by statement *)

\* bool(x) of an Optional[float]: None and zero are falsy, NaN is truthy
Truth(x) == x # None /\ (x = NaN \/ x[1] # 0)

\* an option ticker off reqMktData, as far as the code reads it
OptionTicker(bid, ask, last) == <<bid, ask, last>>

\* _mid without the test ask >= bid
_mid_crossed(bid, ask) ==
    IF Truth(bid) /\ Truth(ask) /\ FPositive(bid) /\ FPositive(ask)
    THEN FDiv(FAdd(bid, ask), FloatOfInt(2))
    ELSE None

\* _mid
_mid(bid, ask) ==
    IF Truth(bid) /\ Truth(ask) /\ FPositive(bid) /\ FPositive(ask) /\ FLe(bid, ask)
    THEN FDiv(FAdd(bid, ask), FloatOfInt(2))
    ELSE None

\* lines 158-159, 170-171: _mid(t.bid, t.ask) or (float(t.last) if t.last and t.last > 0 else None)
LegMid(t) ==
    LET m == _mid(t[1], t[2])
    IN  IF Truth(m) THEN m
        ELSE IF Truth(t[3]) /\ FPositive(t[3]) THEN t[3]
        ELSE None

\* lines 162-163, 173-174: the quality tag of one leg
QualityPart(leg, t) ==
    IF Truth(_mid(t[1], t[2])) THEN leg \o ":mid"
    ELSE IF Truth(t[3]) /\ FPositive(t[3]) THEN leg \o ":last"
    ELSE leg \o ":na"

\* "|".join(quality_parts)
RECURSIVE JoinBar(_)
JoinBar(parts) ==
    IF parts = <<>> THEN ""
    ELSE IF Len(parts) = 1 THEN parts[1]
    ELSE parts[1] \o "|" \o JoinBar(Tail(parts))

Quotes ==
    { <<None, None>>, <<FloatOfInt(-1), FloatOfInt(-1)>>, <<NaN, FloatOfInt(3)>>,
      <<FloatOfInt(2), FloatOfInt(3)>>, <<FloatOfInt(3), FloatOfInt(2)>> }

OptionLasts == {None, FloatOfInt(0), FloatOfInt(1)}

OptionTickers == {OptionTicker(q[1], q[2], l) : q \in Quotes, l \in OptionLasts}

\* lines 145-148
InitStraddle ==
    /\ pc = "snap_live"
    /\ rows = {}
    /\ events = <<>>
    /\ dates_sorted = <<>>
    /\ close_by_date = EmptyDict
    /\ i = 0
    /\ out = <<>>
    /\ call = None
    /\ ret = None
    /\ frame = [tc |-> None, tp |-> None, c_mid |-> None, p_mid |-> None,
                quality_parts |-> <<>>, open |-> 0, live |-> None, delayed |-> None]

StraddleFrozen == UNCHANGED <<rows, events, dates_sorted, close_by_date, i, call>>

\* line 157 with _snap_pair, lines 150-155
SnapPairLive ==
    /\ pc = "snap_live"
    /\ \E tc \in OptionTickers, tp \in OptionTickers :
          frame' = [frame EXCEPT !.tc = tc, !.tp = tp, !.live = <<tc, tp>>, !.open = @ + 2]
    /\ out' = Append(out, "_snap_pair(1)")
    /\ pc' = "legs_live"
    /\ UNCHANGED ret
    /\ StraddleFrozen

\* lines 158-163
LegsLive ==
    /\ pc = "legs_live"
    /\ frame' = [frame EXCEPT
                    !.c_mid = LegMid(frame.tc),
                    !.p_mid = LegMid(frame.tp),
                    !.quality_parts = <<QualityPart("C", frame.tc), QualityPart("P", frame.tp)>>]
    /\ pc' = "cancel_live_pair"
    /\ UNCHANGED <<out, ret>>
    /\ StraddleFrozen

\* lines 165-166
CancelLivePair ==
    /\ pc = "cancel_live_pair"
    /\ frame' = [frame EXCEPT !.open = @ - 2]
    /\ out' = Append(out, "cancelMktData(call, put)")
    /\ pc' = "live_pair_done"
    /\ UNCHANGED ret
    /\ StraddleFrozen

\* lines 168-169
SnapPairDelayed ==
    /\ pc = "live_pair_done"
    /\ frame.c_mid = None \/ frame.p_mid = None
    /\ \E tc \in OptionTickers, tp \in OptionTickers :
          frame' = [frame EXCEPT !.tc = tc, !.tp = tp, !.delayed = <<tc, tp>>, !.open = @ + 2]
    /\ out' = Append(out, "_snap_pair(4)")
    /\ pc' = "legs_delayed"
    /\ UNCHANGED ret
    /\ StraddleFrozen

\* lines 170-174
LegsDelayed ==
    /\ pc = "legs_delayed"
    /\ frame' = [frame EXCEPT
                    !.c_mid = LegMid(frame.tc),
                    !.p_mid = LegMid(frame.tp),
                    !.quality_parts = @ \o <<"retry:delayed",
                                             QualityPart("C2", frame.tc),
                                             QualityPart("P2", frame.tp)>>]
    /\ pc' = "cancel_delayed_pair"
    /\ UNCHANGED <<out, ret>>
    /\ StraddleFrozen

\* lines 176-177
CancelDelayedPair ==
    /\ pc = "cancel_delayed_pair"
    /\ frame' = [frame EXCEPT !.open = @ - 2]
    /\ out' = Append(out, "cancelMktData(call, put)")
    /\ pc' = "delayed_pair_done"
    /\ UNCHANGED ret
    /\ StraddleFrozen

\* lines 179-182
ReturnStraddle ==
    /\ \/ pc = "live_pair_done" /\ frame.c_mid # None /\ frame.p_mid # None
       \/ pc = "delayed_pair_done"
    /\ ret' = IF frame.c_mid = None \/ frame.p_mid = None
              THEN <<None, JoinBar(frame.quality_parts)>>
              ELSE <<FAdd(frame.c_mid, frame.p_mid), JoinBar(frame.quality_parts)>>
    /\ pc' = "returned"
    /\ UNCHANGED <<out, frame>>
    /\ StraddleFrozen

NextStraddle ==
    \/ SnapPairLive
    \/ LegsLive
    \/ CancelLivePair
    \/ SnapPairDelayed
    \/ LegsDelayed
    \/ CancelDelayedPair
    \/ ReturnStraddle

SpecStraddle == InitStraddle /\ [][NextStraddle]_vars

-----------------------------------------------------------------------------
(* Properties of fetch_spot_with_fallback, under SpecSpot *)

SourceOrder ==
    <<"reqMktData(LIVE)", "cancelMktData",
      "reqMktData(DELAYED_FROZEN)", "cancelMktData", "bars_fallback">>

Upto(n) == SubSeq(SourceOrder, 1, n)

\* the strictly positive prices among the first n readings of a snapshot
Offers(t, n) ==
    {t[k] : k \in {j \in 1..n : Len(t[j]) = 2 /\ t[j][1] > 0 /\ t[j][2] > 0}}

LastClose == call.bars_fallback[Len(call.bars_fallback)].close

\* C21: the sources are consulted in the order live snapshot, delayed snapshot,
\* last bar close; the result is a strictly positive price of the first source
\* that has one, under that source's tag, and no later source is consulted;
\* a market-data request is cancelled before the next tier is tried and before
\* the function ends; an error is raised only when all three sources fail.
C21_SpotFallback ==
    /\ \E n \in 0..Len(SourceOrder) : out = Upto(n)
    /\ frame.open \in {0, 1}
    /\ pc \in {"req_live", "live_done", "delayed_done", "returned", "raised"} => frame.open = 0
    /\ pc \in {"returned", "raised"} =>
          IF Offers(frame.live, 2) # {}
          THEN /\ pc = "returned"
               /\ ret[2] = "snapshot_live"
               /\ ret[1] \in Offers(frame.live, 2)
               /\ out = Upto(2)
          ELSE /\ frame.delayed # None
               /\ IF Offers(frame.delayed, 3) # {}
                  THEN /\ pc = "returned"
                       /\ ret[2] = "snapshot_delayed"
                       /\ ret[1] \in Offers(frame.delayed, 3)
                       /\ out = Upto(4)
                  ELSE /\ out = Upto(5)
                       /\ IF call.bars_fallback # <<>> /\ LastClose[1] > 0
                          THEN pc = "returned" /\ ret = <<LastClose, "hist_close_fallback">>
                          ELSE pc = "raised" /\ IsRaised(ret)

\* both snapshots came back without a price and the last bar's close was used
C21_Witness ==
    /\ pc = "returned"
    /\ ret[2] = "hist_close_fallback"
    /\ Offers(frame.live, 2) = {}
    /\ Offers(frame.delayed, 3) = {}

-----------------------------------------------------------------------------
(* Properties of fetch_atm_straddle_mid, under SpecStraddle *)

IsPositive(v) == Len(v) = 2 /\ v[1] > 0 /\ v[2] > 0

\* a leg's price: the bid/ask mid when bid and ask are positive with ask >= bid,
\* else a positive last price, else none
LegPrice(t) ==
    IF IsPositive(t[1]) /\ IsPositive(t[2]) /\ t[2][1] * t[1][2] >= t[1][1] * t[2][2]
    THEN Frac(t[1][1] * t[2][2] + t[2][1] * t[1][2], 2 * t[1][2] * t[2][2])
    ELSE IF IsPositive(t[3]) THEN t[3]
    ELSE None

BothPriced(pair) == LegPrice(pair[1]) # None /\ LegPrice(pair[2]) # None

LastAttempt == IF frame.delayed # None THEN frame.delayed ELSE frame.live

\* C22: the delayed pair is requested only when the live pair left a leg
\* without a price; the value returned is call price + put price, both of the
\* same attempt; no value is returned exactly when the last attempt made lacks
\* a price for a leg, whatever the live attempt had for that leg; a leg's price
\* is the bid/ask mid when bid and ask are positive with ask >= bid, else a
\* positive last price.
C22_StraddleMid ==
    /\ frame.delayed # None => ~BothPriced(frame.live)
    /\ pc = "returned" =>
          /\ frame.delayed = None => BothPriced(frame.live)
          /\ IF BothPriced(LastAttempt)
             THEN ret[1] = FAdd(LegPrice(LastAttempt[1]), LegPrice(LastAttempt[2]))
             ELSE ret[1] = None

\* the call had a price live and the put had none; at the delayed attempt the
\* put has a price and the call has none: nothing is returned
C22_Witness ==
    /\ pc = "returned"
    /\ frame.delayed # None
    /\ LegPrice(frame.live[1]) # None
    /\ LegPrice(frame.live[2]) = None
    /\ LegPrice(frame.delayed[1]) = None
    /\ LegPrice(frame.delayed[2]) # None
    /\ ret[1] = None
============================================================================
